---- MODULE Spec2Model ----
(***************************************************************************)
(* Credential lifecycle of the auth service: the database-backed          *)
(* AuthService (Register, Login, ValidateToken, RefreshToken, GetProfile)  *)
(* over the users table and the Redis refresh-token store, and the         *)
(* in-memory AuthService variant over its users map.                       *)
(*                                                                         *)
(* Time is counted in ticks of 1/TicksPerSec second.  A JWT is modelled by *)
(* its claims: HS256 signing with the one configured secret is a           *)
(* deterministic function of the claims, so two issued token strings are   *)
(* byte-equal exactly when their claims are equal.                         *)
(***************************************************************************)
EXTENDS Integers, FiniteSets, Sequences, Bags, TLC

\* ---------------------------------------------------------------- bounds
NumProcs == 2
MaxTime == 2
MaxCalls == 3
TicksPerSec == 2

Procs == 1..NumProcs

\* A time.Duration on the model's clock: ticks whole ticks and rem billionths
\* of a tick, 0 <= rem < 10^9, the duration of (ticks + rem / 10^9) ticks; a
\* duration below zero has ticks < 0.  TLC's integers have 32 bits: a
\* duration is held up to 2^31 ticks.
Ticks(n) == [ticks |-> n, rem |-> 0]

TestEmail == "test@example.com"
\* passwords are byte strings: "password", which the hash in the migration's
\* test row verifies (the comment beside it says password123), "password123",
\* the password of the in-memory variant's test user, "pw123456", and
\* "pw123456" followed by a NUL byte and "pw123456" again
TestPassword == <<112, 97, 115, 115, 119, 111, 114, 100>>
MemTestPassword == <<112, 97, 115, 115, 119, 111, 114, 100, 49, 50, 51>>
PwA == <<112, 119, 49, 50, 51, 52, 53, 54>>
PwACycled == PwA \o <<0>> \o PwA
TestUserID == 1
Emails == {TestEmail, "a@x.com"}
Passwords == {TestPassword, PwA, PwACycled}
MemPasswords == {MemTestPassword, PwA, PwACycled}
\* the (password, first name, last name) triples Register is called with
RegisterInputs == {<<PwA, "A", "B">>, <<TestPassword, "C", "D">>}
\* 73 bytes, one more than bcrypt takes
PwLong == [i \in 1..73 |-> 120]
\* the triples the in-memory Register is called with
MemRegisterInputs == RegisterInputs \cup {<<PwLong, "E", "F">>}

\* AuthConfig values main can start the service with: redisClient # nil or nil,
\* TokenExpiry and RefreshExpiry in ticks ("7d" does not parse: RefreshExpiry 0)
Configs ==
    {[redisOn |-> TRUE, tokenExpiry |-> Ticks(3), refreshExpiry |-> Ticks(3)],
     [redisOn |-> TRUE, tokenExpiry |-> Ticks(2), refreshExpiry |-> Ticks(0)],
     [redisOn |-> FALSE, tokenExpiry |-> Ticks(2), refreshExpiry |-> Ticks(3)]}

\* ---------------------------------------------------------------- values
ErrNil == "nil"
ErrInvalidCredentials == "invalid email or password"
ErrUserExists == "user already exists"
ErrUserNotFound == "user not found"
ErrInvalidToken == "invalid token"
ErrInternal == "internal"

\* texts of errors the libraries return
ErrPasswordTooLong == "bcrypt: password length exceeds 72 bytes"
UniqueViolation == "pq: duplicate key value violates unique constraint \"users_email_key\""

NoToken == [user_id |-> 0, email |-> "", exp |-> 0, iat |-> 0]
NoUser == [ID |-> 0, Email |-> "", FirstName |-> "", LastName |-> "", Active |-> FALSE]
NoRow == [id |-> 0, email |-> "", password |-> "", first_name |-> "",
          last_name |-> "", active |-> FALSE]
NoExpiry == -1

\* both external services answer; main serves and both servers accept
\* requests; deadline: when the context of the shutdown expires
AllUp == [db |-> "", redis |-> ""]
Serving == [pc |-> "serving", http |-> "serving", grpc |-> "serving", deadline |-> NoExpiry]

VARIABLES
    cfg,        \* AuthConfig as wired by main: redisClient # nil, TokenExpiry, RefreshExpiry
    now,        \* wall clock, in ticks
    users,      \* rows of the users table
    store,      \* Redis: key -> [val, expireAt]
    pc,         \* per request goroutine: the step it is at
    call,       \* per request goroutine: arguments and locals of the call it runs
    ret,        \* the call that returned last: its arguments and what it returned
    registered, \* the (email, id, password) triples Register has returned success for
    issued,     \* the tokens handed out to callers so far, with the kind they were issued as
    ncalls,     \* calls started so far
    hashWriting, \* in-memory variant: a goroutine is inside an assignment to the users map
    down,       \* per external service: the error its calls fail with now, "" while it answers
    main        \* the main goroutine and the two servers it runs

vars == <<cfg, now, users, store, pc, call, ret, registered, issued, ncalls, hashWriting,
          down, main>>

\* ---------------------------------------------------------------- bcrypt
\* the Blowfish key schedule of bcrypt reads the password followed by a NUL
\* byte, cyclically, until it has read BcryptKeyBytes bytes; nothing else of
\* the password enters the digest
BcryptKeyBytes == 72

ExpandKey(password) ==
    LET ckey == Append(password, 0)
    IN [i \in 1..BcryptKeyBytes |-> ckey[((i - 1) % Len(ckey)) + 1]]

\* bcrypt.GenerateFromPassword refuses passwords longer than BcryptKeyBytes
PasswordTooLong(password) == Len(password) > BcryptKeyBytes

\* bcrypt.GenerateFromPassword: version and cost prefix, then the digest (a
\* one-to-one image of the expanded key; the salt is carried along with it)
GenerateFromPassword(password) == <<"$2a$10$", ExpandKey(password)>>

\* bcrypt.CompareHashAndPassword: recompute from the presented password and
\* compare; the presented password is not limited in length
CompareHashAndPassword(hash, password) == hash = GenerateFromPassword(password)

\* ---------------------------------------------------------------- users table
TestUser == [id |-> TestUserID, email |-> TestEmail,
             password |-> GenerateFromPassword(TestPassword),
             first_name |-> "Test", last_name |-> "User", active |-> TRUE]

\* a lookup that skips deactivated rows, as the other two queries do
EmailExists_ActiveOnly(email) == \E r \in users : r.email = email /\ r.active

\* SELECT EXISTS(SELECT 1 FROM users WHERE email = $1)
EmailExists(email) == \E r \in users : r.email = email

\* a lookup without the "AND active = true" filter
GetByEmail_AnyRow(email) ==
    IF \E r \in users : r.email = email
    THEN CHOOSE r \in users : r.email = email
    ELSE NoRow

GetByEmail(email) ==
    IF \E r \in users : r.email = email /\ r.active
    THEN CHOOSE r \in users : r.email = email /\ r.active
    ELSE NoRow

\* a lookup without the "AND active = true" filter
GetByID_AnyRow(id) ==
    IF \E r \in users : r.id = id
    THEN CHOOSE r \in users : r.id = id
    ELSE NoRow

GetByID(id) ==
    IF \E r \in users : r.id = id /\ r.active
    THEN CHOOSE r \in users : r.id = id /\ r.active
    ELSE NoRow

\* uuid.New(): an id no row carries
NewUUID == Cardinality(users) + 1

\* an insert into a table whose email column is not UNIQUE
CreateOk_NoUniqueEmail(row) == \A r \in users : r.id # row.id

\* INSERT INTO users: email is UNIQUE, id is the primary key
CreateOk(row) == \A r \in users : r.email # row.email /\ r.id # row.id

\* a conversion that copies the whole row
ToServiceUser_WithPassword(row) ==
    [ID |-> row.id, Email |-> row.email, Password |-> row.password,
     FirstName |-> row.first_name, LastName |-> row.last_name, Active |-> row.active]

\* the field-by-field conversion of a repository user to a service User
ToServiceUser(row) ==
    [ID |-> row.id, Email |-> row.email, FirstName |-> row.first_name,
     LastName |-> row.last_name, Active |-> row.active]

\* ---------------------------------------------------------------- tokens
\* jwt.NewNumericDate truncates to whole seconds, downwards
NewNumericDate(t) == t \div TicksPerSec

\* time.Now().Add(d) at instant t, as the last tick that is not after it:
\* NewNumericDate, the one reader of the sum, drops more than what is
\* dropped here
TimeAdd(t, d) == t + d.ticks

generateAccessToken(user, t) ==
    [user_id |-> user.ID, email |-> user.Email,
     exp |-> NewNumericDate(TimeAdd(t, cfg.tokenExpiry)), iat |-> NewNumericDate(t)]

generateRefreshToken(user, t) ==
    [user_id |-> user.ID, email |-> user.Email,
     exp |-> NewNumericDate(TimeAdd(t, cfg.refreshExpiry)), iat |-> NewNumericDate(t)]

\* jwt.ParseWithClaims under the default validator: exp must lie after now
parseTokenOk(tok, t) == tok # NoToken /\ t < tok.exp * TicksPerSec

\* ---------------------------------------------------------------- Redis
RefreshKey(id) == <<"refresh_token", id>>

\* expiration > 0
Positive(d) == d.ticks > 0 \/ (d.ticks = 0 /\ d.rem > 0)

\* redis.KeepTTL, the duration of -1 nanosecond
KeepTTL == [ticks |-> -1, rem |-> 1000000000 - TicksPerSec]

\* go-redis usePrecise: dur < time.Second || dur%time.Second != 0
usePrecise(dur) ==
    dur.ticks < TicksPerSec \/ dur.rem # 0 \/ dur.ticks % TicksPerSec # 0

\* go-redis formatMs of a duration above zero: PX takes whole milliseconds; a
\* part of a millisecond counts as one, and int64(dur / time.Millisecond)
\* drops the fraction of any other duration.  The milliseconds are written
\* as [sec, ms], sec * 1000 + ms of them, for the 32 bits of TLC's integers
formatMs(dur) ==
    IF dur.ticks = 0 /\ dur.rem < 1000000 * TicksPerSec THEN [sec |-> 0, ms |-> 1]
    ELSE [sec |-> dur.ticks \div TicksPerSec,
          ms |-> ((dur.ticks % TicksPerSec) * 1000 + dur.rem \div 1000000)
                     \div TicksPerSec]

\* go-redis formatSec: EXPIRE and EX take whole seconds; a part of a second
\* counts as one, and int64(dur / time.Second) drops the fraction of any
\* other duration, towards zero
formatSec(dur) ==
    IF Positive(dur) /\ dur.ticks < TicksPerSec THEN 1
    ELSE IF dur.ticks < 0
    THEN -((-(dur.ticks + (IF dur.rem > 0 THEN 1 ELSE 0))) \div TicksPerSec)
    ELSE dur.ticks \div TicksPerSec

\* the first tick at which a key set at instant t with PX px is gone
ExpireAtMs(t, px) == t + px.sec * TicksPerSec + (px.ms * TicksPerSec + 999) \div 1000

\* when a key that Set writes at instant t expires: go-redis sends PX or EX
\* for an expiration above zero, KEEPTTL, which keeps the expiration of a
\* key that is there, for redis.KeepTTL, and no expiration otherwise
SetExpireAt(s, key, expiry, t) ==
    IF Positive(expiry)
    THEN IF usePrecise(expiry) THEN ExpireAtMs(t, formatMs(expiry))
         ELSE t + formatSec(expiry) * TicksPerSec
    ELSE IF expiry = KeepTTL /\ key \in DOMAIN s /\ t < s[key].expireAt
    THEN s[key].expireAt
    ELSE NoExpiry

\* Client.SetWithExpiry: SET key value [PX ms | EX s | KEEPTTL]
SetWithExpiry(s, key, value, expiry, t) ==
    [k \in (DOMAIN s) \cup {key} |->
        IF k = key
        THEN [val |-> value, expireAt |-> SetExpireAt(s, key, expiry, t)]
        ELSE s[k]]

KeyLive(key) ==
    /\ key \in DOMAIN store
    /\ (store[key].expireAt = NoExpiry \/ now < store[key].expireAt)

\* GET key: the value, or redis.Nil (NoToken here) for a missing or expired key
GetString(key) == IF KeyLive(key) THEN store[key].val ELSE NoToken

\* ---------------------------------------------------------------- calls
\* call[p]: the arguments of the call p runs (op .. id), its locals (user,
\* access, refresh), and three history fields:
\* case, what the directory held for the call's user when the call started;
\* prev, the refresh tokens earlier, completed Logins had returned for the
\* same user when this Login started; stored, what Redis held under the
\* token's user when RefreshToken reached its store check
NoCall == [op |-> "", email |-> "", password |-> << >>, names |-> <<"", "">>,
           token |-> NoToken, id |-> 0,
           user |-> NoUser, access |-> NoToken, refresh |-> NoToken,
           case |-> "", prev |-> {}, stored |-> NoToken]

\* detail: for an error that wraps others, the texts of the chain, outermost first
NoRes == [err |-> ErrNil, detail |-> << >>, user |-> NoUser, access |-> NoToken,
          refresh |-> NoToken]

Fail(e) == [NoRes EXCEPT !.err = e]

\* fmt.Errorf("...: %w", err): an error that is none of the service's sentinels
Wrapped(texts) == [NoRes EXCEPT !.err = ErrInternal, !.detail = texts]

\* err.Error()
ErrorString(r) == IF r.err = ErrInternal THEN r.detail ELSE <<r.err>>

\* what is kept of a call once it has returned
Args(c) == [op |-> c.op, email |-> c.email, token |-> c.token, id |-> c.id,
            case |-> c.case, prev |-> c.prev, stored |-> c.stored]

NoRet == [call |-> Args(NoCall), res |-> NoRes]

\* the server whose request goroutine p is: each server runs its own
\* goroutines, the HTTP server the odd ones here and the gRPC server the even
ServerOf(p) == IF p % 2 = 1 THEN "http" ELSE "grpc"

\* p starts a call: its server accepts requests, a request goroutine serves
\* one call at a time, and of the goroutines of one server, which are alike,
\* the first that is free takes the new request
Start(p) ==
    /\ pc[p] = "idle"
    /\ main[ServerOf(p)] = "serving"
    /\ \A q \in Procs : (q < p /\ ServerOf(q) = ServerOf(p)) => pc[q] # "idle"
    /\ ncalls < MaxCalls
    /\ ncalls' = ncalls + 1

\* the call c of p returns r
Return(p, c, r) ==
    /\ pc' = [pc EXCEPT ![p] = "idle"]
    /\ call' = [call EXCEPT ![p] = NoCall]
    /\ ret' = [call |-> Args(c), res |-> r]

\* p's call goes on to step l with locals c
Goto(p, c, l) ==
    /\ pc' = [pc EXCEPT ![p] = l]
    /\ call' = [call EXCEPT ![p] = c]
    /\ ret' = ret

Tokens == {x[2] : x \in issued}

CaseOfRows(rows) ==
    IF rows = {} THEN "absent"
    ELSE IF \E r \in rows : r.active THEN "active" ELSE "inactive"

CaseOfEmail(email) == CaseOfRows({r \in users : r.email = email})

CaseOfID(id) == CaseOfRows({r \in users : r.id = id})

\* for Login the case also tells whether the presented password is the registered one
CaseOfLogin(email, password) ==
    IF \E r \in users : r.email = email /\ ~CompareHashAndPassword(r.password, password)
    THEN IF CaseOfEmail(email) = "active" THEN "wrongpw" ELSE "inactive_wrongpw"
    ELSE CaseOfEmail(email)

\* the refresh tokens handed out so far for the user registered under email
PrevLogins(email) ==
    {x[2] : x \in {y \in issued : y[1] = "refresh" /\ y[2].email = email}}

Init ==
    /\ cfg \in Configs
    /\ now = 0
    /\ users = {TestUser}
    /\ store = << >>
    /\ pc = [p \in Procs |-> "idle"]
    /\ call = [p \in Procs |-> NoCall]
    /\ ret = NoRet
    /\ registered = {}
    /\ issued = {}
    /\ ncalls = 0
    /\ hashWriting = FALSE
    /\ down = AllUp
    /\ main = Serving

\* ---------------------------------------------------------------- Register
\* AuthService.Register up to the existence check
Register(p, email, password, names) ==
    /\ Start(p)
    /\ LET c == [NoCall EXCEPT !.op = "Register", !.email = email,
                               !.password = password, !.names = names,
                               !.case = CaseOfEmail(email)]
       IN IF down.db # ""
          THEN Return(p, c, Wrapped(<<"failed to check email existence",
                                      "failed to check email existence", down.db>>))
          ELSE IF EmailExists(email)
          THEN Return(p, c, Fail(ErrUserExists))
          ELSE IF PasswordTooLong(password)
          THEN Return(p, c, Wrapped(<<"failed to hash password", ErrPasswordTooLong>>))
          ELSE Goto(p, c, "Register_Create")
    /\ UNCHANGED <<registered, cfg, now, users, store, issued, hashWriting, down, main>>

\* a repository.User that Register builds with Active false
NewRepoUser_Inactive(c) ==
    [id |-> NewUUID, email |-> c.email, password |-> GenerateFromPassword(c.password),
     first_name |-> c.names[1], last_name |-> c.names[2], active |-> FALSE]

\* the repository.User Register builds for the call c
NewRepoUser(c) ==
    [id |-> NewUUID, email |-> c.email, password |-> GenerateFromPassword(c.password),
     first_name |-> c.names[1], last_name |-> c.names[2], active |-> TRUE]

\* AuthService.Register from the insert on
RegisterCreate(p) ==
    /\ pc[p] = "Register_Create"
    /\ LET row == NewRepoUser(call[p])
       IN IF down.db # ""
          THEN /\ users' = users
               /\ registered' = registered
               /\ Return(p, call[p], Wrapped(<<"failed to create user",
                                                "failed to create user", down.db>>))
          ELSE IF CreateOk(row)
          THEN /\ users' = users \cup {row}
               /\ registered' = registered \cup {<<row.email, row.id, call[p].password>>}
               /\ Return(p, call[p], [NoRes EXCEPT !.user = ToServiceUser(row)])
          ELSE /\ users' = users
               /\ registered' = registered
               /\ Return(p, call[p], Wrapped(<<"failed to create user",
                                                "failed to create user", UniqueViolation>>))
    /\ UNCHANGED <<cfg, now, store, issued, ncalls, hashWriting, down, main>>

\* ---------------------------------------------------------------- Login
\* AuthService.Login up to the Redis write: the user lookup, the password
\* check, generateAccessToken and generateRefreshToken
Login(p, email, password) ==
    /\ Start(p)
    /\ LET c == [NoCall EXCEPT !.op = "Login", !.email = email, !.password = password,
                               !.case = CaseOfLogin(email, password),
                               !.prev = PrevLogins(email)]
           repoUser == GetByEmail(email)
       IN IF down.db # "" \/ repoUser = NoRow
          THEN Return(p, c, Fail(ErrInvalidCredentials))
          ELSE IF ~CompareHashAndPassword(repoUser.password, password)
          THEN Return(p, c, Fail(ErrInvalidCredentials))
          ELSE Goto(p, [c EXCEPT !.user = ToServiceUser(repoUser),
                                 !.access = generateAccessToken(ToServiceUser(repoUser), now),
                                 !.refresh = generateRefreshToken(ToServiceUser(repoUser), now)],
                    "Login_store")
    /\ UNCHANGED <<registered, cfg, now, users, store, issued, hashWriting, down, main>>

\* AuthService.Login: store the refresh token in Redis and return
LoginStore(p) ==
    /\ pc[p] = "Login_store"
    /\ store' = IF cfg.redisOn /\ down.redis = ""
                THEN SetWithExpiry(store, RefreshKey(call[p].user.ID), call[p].refresh,
                                   cfg.refreshExpiry, now)
                ELSE store
    /\ Return(p, call[p], [NoRes EXCEPT !.user = call[p].user, !.access = call[p].access,
                                        !.refresh = call[p].refresh])
    /\ issued' = issued \cup {<<"access", call[p].access>>, <<"refresh", call[p].refresh>>}
    /\ UNCHANGED <<registered, cfg, now, users, ncalls, hashWriting, down, main>>

\* ---------------------------------------------------------------- GetProfile
GetProfileResult(userID) ==
    IF down.db # "" \/ GetByID(userID) = NoRow
    THEN Fail(ErrUserNotFound)
    ELSE [NoRes EXCEPT !.user = ToServiceUser(GetByID(userID))]

GetProfile(p, userID) ==
    /\ Start(p)
    /\ Return(p, [NoCall EXCEPT !.op = "GetProfile", !.id = userID, !.case = CaseOfID(userID)],
              GetProfileResult(userID))
    /\ UNCHANGED <<registered, cfg, now, users, store, issued, hashWriting, down, main>>

\* ---------------------------------------------------------------- ValidateToken
\* the Redis check of RefreshToken: skipped without a client, else the stored
\* string must equal the presented one
StoreCheckOk(refreshToken) ==
    \/ ~cfg.redisOn
    \/ (down.redis = "" /\ GetString(RefreshKey(refreshToken.user_id)) = refreshToken)

\* a ValidateToken that consults the session store the way RefreshToken does
ValidateTokenResult_StoreChecked(tokenString) ==
    IF ~parseTokenOk(tokenString, now) \/ ~StoreCheckOk(tokenString)
    THEN Fail(ErrInvalidToken)
    ELSE IF GetProfileResult(tokenString.user_id).err # ErrNil
    THEN Fail(ErrUserNotFound)
    ELSE GetProfileResult(tokenString.user_id)

ValidateTokenResult(tokenString) ==
    IF ~parseTokenOk(tokenString, now)
    THEN Fail(ErrInvalidToken)
    ELSE IF GetProfileResult(tokenString.user_id).err # ErrNil
    THEN Fail(ErrUserNotFound)
    ELSE GetProfileResult(tokenString.user_id)

ValidateToken(p, tokenString) ==
    /\ Start(p)
    /\ Return(p, [NoCall EXCEPT !.op = "ValidateToken", !.token = tokenString,
                                  !.case = CaseOfID(tokenString.user_id)],
              ValidateTokenResult(tokenString))
    /\ UNCHANGED <<registered, cfg, now, users, store, issued, hashWriting, down, main>>

\* ---------------------------------------------------------------- RefreshToken
\* what RefreshToken returns when its two steps run with nothing in between
RefreshTokenResult(refreshToken) ==
    IF ~parseTokenOk(refreshToken, now) THEN Fail(ErrInvalidToken)
    ELSE IF ~StoreCheckOk(refreshToken) THEN Fail(ErrInvalidToken)
    ELSE IF GetProfileResult(refreshToken.user_id).err # ErrNil THEN Fail(ErrUserNotFound)
    ELSE [NoRes EXCEPT !.access =
              generateAccessToken(GetProfileResult(refreshToken.user_id).user, now)]

\* AuthService.RefreshToken up to the Redis check
RefreshToken(p, refreshToken) ==
    /\ Start(p)
    /\ LET c == [NoCall EXCEPT !.op = "RefreshToken", !.token = refreshToken,
                               !.case = CaseOfID(refreshToken.user_id),
                               !.stored = GetString(RefreshKey(refreshToken.user_id))]
       IN IF ~parseTokenOk(refreshToken, now)
          THEN Return(p, c, Fail(ErrInvalidToken))
          ELSE IF ~StoreCheckOk(refreshToken)
          THEN Return(p, c, Fail(ErrInvalidToken))
          ELSE Goto(p, c, "RefreshToken_GetProfile")
    /\ UNCHANGED <<registered, cfg, now, users, store, issued, hashWriting, down, main>>

\* a RefreshToken that deletes the entry it has matched (single use)
RefreshTokenStore_Consumed(s, refreshToken) ==
    [k \in (DOMAIN s) \ {RefreshKey(refreshToken.user_id)} |-> s[k]]

\* what RefreshToken leaves in Redis: it only reads
RefreshTokenStore(s, refreshToken) == s

\* AuthService.RefreshToken from the user lookup on
RefreshTokenGetProfile(p) ==
    /\ pc[p] = "RefreshToken_GetProfile"
    /\ store' = RefreshTokenStore(store, call[p].token)
    /\ LET profile == GetProfileResult(call[p].token.user_id)
           newAccessToken == generateAccessToken(profile.user, now)
       IN IF profile.err # ErrNil
          THEN /\ Return(p, call[p], Fail(ErrUserNotFound))
               /\ issued' = issued
          ELSE /\ Return(p, call[p], [NoRes EXCEPT !.access = newAccessToken])
               /\ issued' = issued \cup {<<"access", newAccessToken>>}
    /\ UNCHANGED <<registered, cfg, now, users, ncalls, hashWriting, down, main>>

\* ---------------------------------------------------------------- environment
SoftDelete_Removing(rows, id) == {r \in rows : r.id # id}

\* UPDATE users SET active = false WHERE id = $1
SoftDelete(rows, id) ==
    {IF r.id = id THEN [r EXCEPT !.active = FALSE] ELSE r : r \in rows}

DeleteStore_Evicting(s, id) == [k \in DOMAIN s \ {RefreshKey(id)} |-> s[k]]

\* what UserRepository.Delete does to Redis: its one statement is an UPDATE of
\* the users table
DeleteStore(s, id) == s

\* UserRepository.Delete: soft delete; it counts as one of the calls made
Delete(id) ==
    /\ down.db = ""
    /\ \E r \in users : r.id = id /\ r.active
    /\ ncalls < MaxCalls
    /\ ncalls' = ncalls + 1
    /\ users' = SoftDelete(users, id)
    /\ store' = DeleteStore(store, id)
    /\ UNCHANGED <<cfg, now, pc, call, ret, registered, issued,
                   hashWriting, down, main>>

\* the (first name, last name) pairs Update is called with
UpdateNames == {<<"X", "Y">>}

\* UPDATE users SET first_name = $2, last_name = $3 WHERE id = $1
SetNames(rows, id, names) ==
    {IF r.id = id THEN [r EXCEPT !.first_name = names[1], !.last_name = names[2]] ELSE r
        : r \in rows}

\* UserRepository.Update: it changes the two names of the row with the id,
\* active or not; it counts as one of the calls made.  No operation of the
\* service calls it: it is a step of SpecStore
Update(id, names) ==
    /\ down.db = ""
    /\ \E r \in users : r.id = id
    /\ ncalls < MaxCalls
    /\ ncalls' = ncalls + 1
    /\ users' = SetNames(users, id, names)
    /\ UNCHANGED <<cfg, now, store, pc, call, ret, registered, issued,
                   hashWriting, down, main>>

Tick ==
    /\ now < MaxTime
    /\ now' = now + 1
    /\ UNCHANGED <<cfg, users, store, pc, call, ret, registered, issued, ncalls,
                   hashWriting, down, main>>

UserIDs == 1..Cardinality(Emails)

Next ==
    \/ \E p \in Procs, e \in Emails, in \in RegisterInputs :
            Register(p, e, in[1], <<in[2], in[3]>>)
    \/ \E p \in Procs : RegisterCreate(p)
    \/ \E p \in Procs, e \in Emails, pw \in Passwords : Login(p, e, pw)
    \/ \E p \in Procs : LoginStore(p)
    \/ \E p \in Procs, id \in UserIDs : GetProfile(p, id)
    \/ \E p \in Procs, t \in Tokens : ValidateToken(p, t)
    \/ \E p \in Procs, t \in Tokens : RefreshToken(p, t)
    \/ \E p \in Procs : RefreshTokenGetProfile(p)
    \/ \E id \in UserIDs : Delete(id)
    \/ Tick

\* the database-backed service, directory and store reachable
Spec == Init /\ [][Next]_vars

\* ================================================================ directory
\* Register and Login, which look a user up by email, beside everything that
\* writes the users table: Create in Register, and the repository's Delete
\* and Update
NextDirectory ==
    \/ \E p \in Procs, e \in Emails, in \in RegisterInputs :
            Register(p, e, in[1], <<in[2], in[3]>>)
    \/ \E p \in Procs : RegisterCreate(p)
    \/ \E p \in Procs, e \in Emails, pw \in Passwords : Login(p, e, pw)
    \/ \E p \in Procs : LoginStore(p)
    \/ \E id \in UserIDs : Delete(id)
    \/ \E id \in UserIDs, names \in UpdateNames : Update(id, names)
    \/ Tick

SpecDirectory == Init /\ [][NextDirectory]_vars

\* ================================================================ Redis client
\* The calls of pkg/common/redis that the service does not make: Delete,
\* SetNX, Increment and IncrementWithExpiry.  They are open to every holder
\* of the client and reach the keys the service keeps its refresh tokens
\* under.
ClientKeys == {RefreshKey(id) : id \in UserIDs}

\* the expirations the calls are made with: one tick back, none, one second
ClientExpiries == {Ticks(-1), Ticks(0), Ticks(TicksPerSec)}

\* the string INCR leaves under a key: the decimal digits of n, which no
\* token equals; it is kept in the fields of a token so that the two compare
CounterValue(n) == [user_id |-> 0, email |-> "integer", exp |-> 0, iat |-> n]

IsCounter(value) == value.email = "integer"

\* DEL key
Del(s, key) == [k \in (DOMAIN s) \ {key} |-> s[k]]

\* SETNX key value for expiry 0, SET key value KEEPTTL NX for redis.KeepTTL,
\* SET key value PX ms NX or EX s NX otherwise: Redis refuses an expiry that
\* is not above zero ("invalid expire time"), and sets the key only when it
\* is not there
SetNX(s, key, value, expiry, t) ==
    IF (expiry.ticks < 0 /\ expiry # KeepTTL) \/ KeyLive(key) THEN s
    ELSE SetWithExpiry(s, key, value, expiry, t)

\* INCR key: a key that is not there counts from 0 and gets no expiration, a
\* number keeps its expiration, and any other value fails with "ERR value is
\* not an integer or out of range" and stays
Incr(s, key) ==
    IF ~KeyLive(key)
    THEN SetWithExpiry(s, key, CounterValue(1), Ticks(0), now)
    ELSE IF IsCounter(s[key].val)
    THEN [s EXCEPT ![key].val = CounterValue(s[key].val.iat + 1)]
    ELSE s

\* EXPIRE key seconds at instant t, on the store s the INCR before it left:
\* a key that is there expires after the seconds, at once when they are not
\* positive
Expire(s, key, expiry, t) ==
    IF ~(key \in DOMAIN s /\ (s[key].expireAt = NoExpiry \/ t < s[key].expireAt))
    THEN s
    ELSE IF formatSec(expiry) <= 0
    THEN Del(s, key)
    ELSE [s EXCEPT ![key].expireAt = t + formatSec(expiry) * TicksPerSec]

\* a call of the client: it needs the client and the connection, and counts
\* as one of the calls made
ClientCall ==
    /\ cfg.redisOn
    /\ down.redis = ""
    /\ ncalls < MaxCalls
    /\ ncalls' = ncalls + 1
    /\ UNCHANGED <<cfg, now, users, pc, call, ret, registered, issued,
                   hashWriting, down, main>>

\* Client.Delete
ClientDelete(key) ==
    /\ ClientCall
    /\ store' = Del(store, key)

\* Client.SetNX
ClientSetNX(key, value, expiry) ==
    /\ ClientCall
    /\ store' = SetNX(store, key, value, expiry, now)

\* Client.Increment
Increment(key) ==
    /\ ClientCall
    /\ store' = Incr(store, key)

\* Client.IncrementWithExpiry: INCR and EXPIRE in one MULTI/EXEC; EXPIRE runs
\* also when INCR has failed
IncrementWithExpiry(key, expiry) ==
    /\ ClientCall
    /\ store' = Expire(Incr(store, key), key, expiry, now)

\* a step of one of the four calls
ClientStep ==
    \/ \E key \in ClientKeys : ClientDelete(key)
    \/ \E key \in ClientKeys, value \in Tokens, expiry \in ClientExpiries :
            ClientSetNX(key, value, expiry)
    \/ \E key \in ClientKeys : Increment(key)
    \/ \E key \in ClientKeys, expiry \in ClientExpiries : IncrementWithExpiry(key, expiry)

\* every operation of the service (Register, Login, RefreshToken,
\* GetProfile, ValidateToken), the repository's Delete and Update, and the
\* four calls.  Register is called with one password and one pair of names,
\* Login with the right password of either user (each is the wrong one for
\* the other)
NextStore ==
    \/ \E p \in Procs, e \in Emails : Register(p, e, PwA, <<"A", "B">>)
    \/ \E p \in Procs : RegisterCreate(p)
    \/ \E p \in Procs, e \in Emails, pw \in {TestPassword, PwA} : Login(p, e, pw)
    \/ \E p \in Procs : LoginStore(p)
    \/ \E p \in Procs, t \in Tokens : RefreshToken(p, t)
    \/ \E p \in Procs : RefreshTokenGetProfile(p)
    \/ \E p \in Procs, id \in UserIDs : GetProfile(p, id)
    \/ \E p \in Procs, t \in Tokens : ValidateToken(p, t)
    \/ \E id \in UserIDs : Delete(id)
    \/ \E id \in UserIDs, names \in UpdateNames : Update(id, names)
    \/ Tick
    \/ \E key \in ClientKeys : ClientDelete(key)
    \/ \E key \in ClientKeys, value \in Tokens, expiry \in ClientExpiries :
            ClientSetNX(key, value, expiry)
    \/ \E key \in ClientKeys : Increment(key)
    \/ \E key \in ClientKeys, expiry \in ClientExpiries : IncrementWithExpiry(key, expiry)

\* the service with a Redis client: without one (cmd/main.go:43-52 leaves it
\* nil) no operation reaches the store and the four calls cannot be made
InitStore ==
    /\ Init
    /\ cfg.redisOn

\* the service beside other users of its repository and its Redis client
SpecStore == InitStore /\ [][NextStore]_vars

\* ================================================================ outages
\* what a call to an unreachable service fails with
DriverErrors == {"dial tcp 10.0.0.5:5432: connect: connection refused",
                 "context deadline exceeded"}

Services == {"db", "redis"}

\* a service stops answering: its calls fail with text from now on
Outage(svc, text) ==
    /\ down[svc] = ""
    /\ down' = [down EXCEPT ![svc] = text]
    /\ UNCHANGED <<cfg, now, users, store, pc, call, ret, registered, issued, ncalls,
                   hashWriting, main>>

\* the service answers again
Restore(svc) ==
    /\ down[svc] # ""
    /\ down' = [down EXCEPT ![svc] = ""]
    /\ UNCHANGED <<cfg, now, users, store, pc, call, ret, registered, issued, ncalls,
                   hashWriting, main>>

NextFault ==
    \/ Next
    \/ \E svc \in Services, text \in DriverErrors : Outage(svc, text)
    \/ \E svc \in Services : Restore(svc)

\* the database-backed service while the database or Redis may be out of reach
SpecFault == Init /\ [][NextFault]_vars

\* ================================================================ shutdown
\* what a call on a closed handle fails with
ErrRedisClosed == "redis: client is closed"

ErrDBClosed == "sql: database is closed"

\* context.WithTimeout(context.Background(), 30*time.Second)
ShutdownTimeout == 30 * TicksPerSec

\* the calls in flight that came in over the server srv
Pending(srv) == {p \in Procs : ServerOf(p) = srv /\ pc[p] # "idle"}

\* main receives SIGINT or SIGTERM, makes the context of the shutdown and
\* starts the two Stop goroutines
Signal ==
    /\ main.pc = "serving"
    /\ main' = [main EXCEPT !.pc = "close_redis", !.deadline = now + ShutdownTimeout]
    /\ UNCHANGED <<cfg, now, users, store, pc, call, ret, registered, issued, ncalls,
                   hashWriting, down>>

\* the goroutine calling httpServer.Stop runs: http.Server.Shutdown closes the
\* listener, so ListenAndServe returns, and waits for the requests to finish
HTTPStop ==
    /\ main.pc # "serving"
    /\ main.http = "serving"
    /\ main' = [main EXCEPT !.http = "draining"]
    /\ UNCHANGED <<cfg, now, users, store, pc, call, ret, registered, issued, ncalls,
                   hashWriting, down>>

\* Shutdown returns nil: no HTTP request is in flight any more
HTTPStopped ==
    /\ main.pc # "exited"
    /\ main.http = "draining"
    /\ Pending("http") = {}
    /\ main' = [main EXCEPT !.http = "stopped"]
    /\ UNCHANGED <<cfg, now, users, store, pc, call, ret, registered, issued, ncalls,
                   hashWriting, down>>

\* the context of the shutdown expires with an HTTP request still in flight:
\* Shutdown returns context.DeadlineExceeded, which main logs; the request
\* goes on
HTTPStopTimeout ==
    /\ main.pc # "exited"
    /\ main.http = "draining"
    /\ Pending("http") # {}
    /\ now < main.deadline
    /\ now' = main.deadline
    /\ main' = [main EXCEPT !.http = "stopped"]
    /\ UNCHANGED <<cfg, users, store, pc, call, ret, registered, issued, ncalls,
                   hashWriting, down>>

\* grpcServer.Stop called by main once wg.Wait has returned
GRPCStop_AfterWait ==
    /\ main.pc = "exited"
    /\ main.grpc = "serving"
    /\ main' = [main EXCEPT !.grpc = "draining"]
    /\ UNCHANGED <<cfg, now, users, store, pc, call, ret, registered, issued, ncalls,
                   hashWriting, down>>

\* the goroutine calling grpcServer.Stop runs: GracefulStop closes the
\* listener and waits for the pending calls
GRPCStop ==
    /\ main.pc # "serving"
    /\ main.grpc = "serving"
    /\ main' = [main EXCEPT !.grpc = "draining"]
    /\ UNCHANGED <<cfg, now, users, store, pc, call, ret, registered, issued, ncalls,
                   hashWriting, down>>

\* GracefulStop returns, and with it Serve: no gRPC call is pending any more
GRPCStopped ==
    /\ main.grpc = "draining"
    /\ Pending("grpc") = {}
    /\ main' = [main EXCEPT !.grpc = "stopped"]
    /\ UNCHANGED <<cfg, now, users, store, pc, call, ret, registered, issued, ncalls,
                   hashWriting, down>>

\* main: redisClient.Close() if there is a client
CloseRedis ==
    /\ main.pc = "close_redis"
    /\ main' = [main EXCEPT !.pc = "close_db"]
    /\ down' = IF cfg.redisOn THEN [down EXCEPT !.redis = ErrRedisClosed] ELSE down
    /\ UNCHANGED <<cfg, now, users, store, pc, call, ret, registered, issued, ncalls,
                   hashWriting>>

\* main: db.Close()
CloseDB ==
    /\ main.pc = "close_db"
    /\ main' = [main EXCEPT !.pc = "wait"]
    /\ down' = [down EXCEPT !.db = ErrDBClosed]
    /\ UNCHANGED <<cfg, now, users, store, pc, call, ret, registered, issued, ncalls,
                   hashWriting>>

\* main: wg.Wait() returns once ListenAndServe and Serve have returned, and
\* the process ends with whatever its goroutines were doing
Wait ==
    /\ main.pc = "wait"
    /\ main.http # "serving"
    /\ main.grpc = "stopped"
    /\ main' = [main EXCEPT !.pc = "exited"]
    /\ pc' = [p \in Procs |-> "idle"]
    /\ call' = [p \in Procs |-> NoCall]
    /\ UNCHANGED <<cfg, now, users, store, ret, registered, issued, ncalls,
                   hashWriting, down>>

\* the operations that make more than one call on the connections, the
\* clock, and main's steps from the signal on
NextShutdown ==
    \/ \E p \in Procs, e \in Emails, in \in RegisterInputs :
            Register(p, e, in[1], <<in[2], in[3]>>)
    \/ \E p \in Procs : RegisterCreate(p)
    \/ \E p \in Procs, e \in Emails, pw \in Passwords : Login(p, e, pw)
    \/ \E p \in Procs : LoginStore(p)
    \/ \E p \in Procs, t \in Tokens : RefreshToken(p, t)
    \/ \E p \in Procs : RefreshTokenGetProfile(p)
    \/ Tick
    \/ Signal
    \/ HTTPStop
    \/ HTTPStopped
    \/ HTTPStopTimeout
    \/ GRPCStop
    \/ GRPCStopped
    \/ CloseRedis
    \/ CloseDB
    \/ Wait

\* the service from start to the end of the process
SpecShutdown == Init /\ [][NextShutdown]_vars

\* ---------------------------------------------------------------- shutdown with requests pending
\* Login requests, with main's shutdown steps
NextDrain ==
    \/ \E p \in Procs, e \in Emails, pw \in Passwords : Login(p, e, pw)
    \/ \E p \in Procs : LoginStore(p)
    \/ Signal
    \/ HTTPStop
    \/ HTTPStopped
    \/ HTTPStopTimeout
    \/ GRPCStop
    \/ GRPCStopped
    \/ CloseRedis
    \/ CloseDB
    \/ Wait

\* every goroutine that can take its next step takes it in the end: main, the
\* two goroutines calling Stop, and the goroutines of the requests in flight;
\* nothing makes the signal arrive or a new request start
FairDrain ==
    /\ WF_vars(HTTPStop)
    /\ WF_vars(GRPCStop)
    /\ WF_vars(GRPCStopped)
    /\ WF_vars(CloseRedis)
    /\ WF_vars(CloseDB)
    /\ WF_vars(Wait)
    /\ \A p \in Procs : WF_vars(LoginStore(p))

\* the process from start to end, every pending request completing
SpecDrain == Init /\ [][NextDrain]_vars /\ FairDrain

\* ================================================================ in-memory variant
\* AuthService over users map[string]*User, keyed by email.  The map is read
\* and assigned by the request goroutines without a lock; the Go runtime
\* aborts the process when it sees an access overlap an assignment.
MemAccessTTL == Ticks(15 * 60 * TicksPerSec)
MemRefreshTTL == Ticks(7 * 24 * 3600 * TicksPerSec)

MemConfigs ==
    {[redisOn |-> b, tokenExpiry |-> MemAccessTTL, refreshExpiry |-> MemRefreshTTL] :
        b \in BOOLEAN}

\* the test user NewAuthService puts into the map
MemTestUser == [TestUser EXCEPT !.password = GenerateFromPassword(MemTestPassword)]

InitMem ==
    /\ cfg \in MemConfigs
    /\ now = 0
    /\ users = {MemTestUser}
    /\ store = << >>
    /\ pc = [p \in Procs |-> "idle"]
    /\ call = [p \in Procs |-> NoCall]
    /\ ret = NoRet
    /\ registered = {}
    /\ issued = {}
    /\ ncalls = 0
    /\ hashWriting = FALSE
    /\ down = AllUp
    /\ main = Serving

\* the process ends: fatal error: concurrent map read and map write /
\* concurrent map writes, or a panic that nothing recovers
Fatal ==
    /\ pc' = [q \in Procs |-> "fatal"]
    /\ UNCHANGED <<call, ret>>

\* s.users[email]
MapGet(email) ==
    IF \E r \in users : r.email = email
    THEN CHOOSE r \in users : r.email = email
    ELSE NoRow

\* s.users[email] = user
MapAssign(m, row) == {r \in m : r.email # row.email} \cup {row}

\* a map slot whose key is in place and whose *User has not been stored yet
NilUser(email) == [NoRow EXCEPT !.email = email, !.password = << >>]

\* the map holds the key and a nil *User
IsNilUser(row) == row.email # NoRow.email /\ row.id = NoRow.id

\* mapassign: the slot for the key, a new one when the key is not in the map
MapSlot(m, email) ==
    IF \E r \in m : r.email = email THEN m ELSE m \cup {NilUser(email)}

\* the *User the in-memory service hands to its caller: the struct the map
\* holds, Password and Roles included
MemUser(row) ==
    [ID |-> row.id, Email |-> row.email, Password |-> row.password,
     FirstName |-> row.first_name, LastName |-> row.last_name,
     Roles |-> <<"user">>, Active |-> row.active]

\* what a call ends with when it dereferences a nil *User
ErrNilDereference == "panic: runtime error: invalid memory address or nil pointer dereference"

\* the call c of p panics.  The gRPC server is made by grpc.NewServer() with
\* no interceptor that recovers, so the panic of a handler ends the process;
\* net/http recovers the panic of a handler and closes the connection, and
\* the call ends with the panic and no response
Panic(p, c) ==
    IF ServerOf(p) = "grpc" THEN Fatal ELSE Return(p, c, Fail(ErrNilDereference))

\* in-memory Register up to the map lookup; uuid.New() is the call's number
MemRegister(p, email, password, names) ==
    /\ Start(p)
    /\ LET c == [NoCall EXCEPT !.op = "Register", !.email = email,
                               !.password = password, !.names = names,
                               !.id = TestUserID + ncalls + 1,
                               !.case = CaseOfEmail(email)]
       IN IF hashWriting THEN Fatal
          ELSE IF MapGet(email) # NoRow
          THEN Return(p, c, Fail(ErrUserExists))
          ELSE IF PasswordTooLong(password)
          THEN Return(p, c, Wrapped(<<"failed to hash password", ErrPasswordTooLong>>))
          ELSE Goto(p, c, "MemRegister_assign")
    /\ UNCHANGED <<registered, cfg, now, users, store, issued, hashWriting, down, main>>

\* in-memory Register: the map assignment begins
MemRegisterAssign(p) ==
    /\ pc[p] = "MemRegister_assign"
    /\ IF hashWriting
       THEN Fatal /\ UNCHANGED hashWriting
       ELSE Goto(p, call[p], "MemRegister_slot") /\ hashWriting' = TRUE
    /\ UNCHANGED <<registered, cfg, now, users, store, issued, ncalls, down, main>>

\* in-memory Register: mapassign returns the slot for the key; the key is in
\* the map, the *User is not stored yet
MemRegisterSlot(p) ==
    /\ pc[p] = "MemRegister_slot"
    /\ users' = MapSlot(users, call[p].email)
    /\ hashWriting' = FALSE
    /\ Goto(p, call[p], "MemRegister_return")
    /\ UNCHANGED <<registered, cfg, now, store, issued, ncalls, down, main>>

\* in-memory Register: the *User is stored into the slot and the call returns it
MemRegisterReturn(p) ==
    /\ pc[p] = "MemRegister_return"
    /\ LET row == [id |-> call[p].id, email |-> call[p].email,
                   password |-> GenerateFromPassword(call[p].password),
                   first_name |-> call[p].names[1], last_name |-> call[p].names[2],
                   active |-> TRUE]
       IN /\ users' = MapAssign(users, row)
          /\ registered' = registered \cup {<<row.email, row.id, call[p].password>>}
          /\ Return(p, call[p], [NoRes EXCEPT !.user = MemUser(row)])
    /\ UNCHANGED <<cfg, now, store, issued, ncalls, hashWriting, down, main>>

ErrDeactivated == "user account is deactivated"

\* in-memory Login up to the Redis write: map lookup, password check, active
\* check, generateAccessToken and generateRefreshToken (15 minutes, 7 days)
MemLogin(p, email, password) ==
    /\ Start(p)
    /\ LET c == [NoCall EXCEPT !.op = "Login", !.email = email, !.password = password,
                               !.case = CaseOfLogin(email, password),
                               !.prev = PrevLogins(email)]
           user == MapGet(email)
       IN IF hashWriting THEN Fatal
          ELSE IF user = NoRow
          THEN Return(p, c, Fail(ErrInvalidCredentials))
          ELSE IF IsNilUser(user)
          THEN Panic(p, c)
          ELSE IF ~CompareHashAndPassword(user.password, password)
          THEN Return(p, c, Fail(ErrInvalidCredentials))
          ELSE IF ~user.active
          THEN Return(p, c, Fail(ErrDeactivated))
          ELSE Goto(p, [c EXCEPT !.user = MemUser(user),
                                 !.access = generateAccessToken(MemUser(user), now),
                                 !.refresh = generateRefreshToken(MemUser(user), now)],
                    "MemLogin_store")
    /\ UNCHANGED <<registered, cfg, now, users, store, issued, hashWriting, down, main>>

\* in-memory Login: store the refresh token for 7 days and return
MemLoginStore(p) ==
    /\ pc[p] = "MemLogin_store"
    /\ store' = IF cfg.redisOn
                THEN SetWithExpiry(store, RefreshKey(call[p].user.ID), call[p].refresh,
                                   MemRefreshTTL, now)
                ELSE store
    /\ Return(p, call[p], [NoRes EXCEPT !.user = call[p].user, !.access = call[p].access,
                                        !.refresh = call[p].refresh])
    /\ issued' = issued \cup {<<"access", call[p].access>>, <<"refresh", call[p].refresh>>}
    /\ UNCHANGED <<registered, cfg, now, users, ncalls, hashWriting, down, main>>

\* what the in-memory RefreshToken answers to its token parse and its map
\* lookup by the email claim, ErrNil when it goes on
MemRefreshTokenUser(refreshToken) ==
    IF ~parseTokenOk(refreshToken, now) THEN ErrInvalidToken
    ELSE IF MapGet(refreshToken.email) = NoRow THEN ErrUserNotFound
    ELSE IF IsNilUser(MapGet(refreshToken.email)) THEN ErrNilDereference
    ELSE ErrNil

\* what the in-memory RefreshToken answers up to its Redis check when no
\* other goroutine runs between its steps, ErrNil when it goes on
MemRefreshTokenCheck(refreshToken) ==
    IF MemRefreshTokenUser(refreshToken) # ErrNil THEN MemRefreshTokenUser(refreshToken)
    ELSE IF cfg.redisOn /\ GetString(RefreshKey(MapGet(refreshToken.email).id)) # refreshToken
    THEN ErrInvalidToken
    ELSE ErrNil

\* in-memory RefreshToken up to the read of the users map: token parse and
\* map lookup; a nil *User panics where its ID is read
MemRefreshToken(p, refreshToken) ==
    /\ Start(p)
    /\ LET c == [NoCall EXCEPT !.op = "RefreshToken", !.token = refreshToken,
                               !.case = CaseOfEmail(refreshToken.email),
                               !.stored = GetString(RefreshKey(refreshToken.user_id))]
       IN IF parseTokenOk(refreshToken, now) /\ hashWriting THEN Fatal
          ELSE IF MemRefreshTokenUser(refreshToken) = ErrNilDereference
          THEN Panic(p, c)
          ELSE IF MemRefreshTokenUser(refreshToken) # ErrNil
          THEN Return(p, c, Fail(MemRefreshTokenUser(refreshToken)))
          ELSE Goto(p, [c EXCEPT !.user = MemUser(MapGet(refreshToken.email))],
                    "MemRefreshToken_get")
    /\ UNCHANGED <<registered, cfg, now, users, store, issued, hashWriting, down, main>>

\* in-memory RefreshToken: with a Redis client, GET the entry under the
\* user's key and compare it with the presented token
MemRefreshTokenGet(p) ==
    /\ pc[p] = "MemRefreshToken_get"
    /\ IF cfg.redisOn /\ GetString(RefreshKey(call[p].user.ID)) # call[p].token
       THEN Return(p, call[p], Fail(ErrInvalidToken))
       ELSE Goto(p, call[p], "MemRefreshToken_store")
    /\ UNCHANGED <<registered, cfg, now, users, store, issued, ncalls, hashWriting,
                   down, main>>

\* in-memory RefreshToken: generate both tokens, overwrite the Redis entry
\* with the new refresh token and return
MemRefreshTokenStore(p) ==
    /\ pc[p] = "MemRefreshToken_store"
    /\ LET newAccessToken == generateAccessToken(call[p].user, now)
           newRefreshToken == generateRefreshToken(call[p].user, now)
       IN /\ store' = IF cfg.redisOn
                      THEN SetWithExpiry(store, RefreshKey(call[p].user.ID),
                                         newRefreshToken, MemRefreshTTL, now)
                      ELSE store
          /\ Return(p, call[p], [NoRes EXCEPT !.access = newAccessToken,
                                              !.refresh = newRefreshToken])
          /\ issued' = issued \cup {<<"access", newAccessToken>>,
                                    <<"refresh", newRefreshToken>>}
    /\ UNCHANGED <<registered, cfg, now, users, ncalls, hashWriting, down, main>>

NextMem ==
    \/ \E p \in Procs, e \in Emails, in \in MemRegisterInputs :
            MemRegister(p, e, in[1], <<in[2], in[3]>>)
    \/ \E p \in Procs : MemRegisterAssign(p)
    \/ \E p \in Procs : MemRegisterSlot(p)
    \/ \E p \in Procs : MemRegisterReturn(p)
    \/ \E p \in Procs, e \in Emails, pw \in MemPasswords : MemLogin(p, e, pw)
    \/ \E p \in Procs : MemLoginStore(p)
    \/ \E p \in Procs, t \in Tokens : MemRefreshToken(p, t)
    \/ \E p \in Procs : MemRefreshTokenGet(p)
    \/ \E p \in Procs : MemRefreshTokenStore(p)
    \/ Tick

SpecMem == InitMem /\ [][NextMem]_vars

\* ---------------------------------------------------------------- after a restart
\* NewAuthService starts from a map holding the test user alone, while Redis
\* and the callers keep what an earlier run of the process gave them: here a
\* user registered in that run, who logged in one second before the restart
\* and again just before it
PriorUserID == 99

PriorUser == [ID |-> PriorUserID, Email |-> "a@x.com", FirstName |-> "A",
              LastName |-> "B", Active |-> TRUE]

PriorTokens ==
    [first |-> [user_id |-> PriorUserID, email |-> PriorUser.Email,
                exp |-> NewNumericDate(TimeAdd(-TicksPerSec, MemRefreshTTL)), iat |-> -1],
     second |-> [user_id |-> PriorUserID, email |-> PriorUser.Email,
                 exp |-> NewNumericDate(TimeAdd(0, MemRefreshTTL)), iat |-> 0]]

InitMemRestarted ==
    /\ cfg \in MemConfigs
    /\ now = 0
    /\ users = {MemTestUser}
    /\ store = IF cfg.redisOn
               THEN SetWithExpiry(<< >>, RefreshKey(PriorUserID), PriorTokens.second,
                                  MemRefreshTTL, 0)
               ELSE << >>
    /\ pc = [p \in Procs |-> "idle"]
    /\ call = [p \in Procs |-> NoCall]
    /\ ret = NoRet
    /\ registered = {}
    /\ issued = {<<"refresh", PriorTokens.first>>, <<"refresh", PriorTokens.second>>}
    /\ ncalls = 0
    /\ hashWriting = FALSE
    /\ down = AllUp
    /\ main = Serving

\* the in-memory service after a restart
SpecMemRestarted == InitMemRestarted /\ [][NextMem]_vars

\* ================================================================ transport adapters
\* pkg/common/errors: the codes getHTTPStatusForCode knows
ErrorCodes ==
    {"UNAUTHORIZED", "FORBIDDEN", "INVALID_TOKEN", "EXPIRED_TOKEN",
     "VALIDATION_ERROR", "INVALID_INPUT", "MISSING_FIELD",
     "NOT_FOUND", "ALREADY_EXISTS", "CONFLICT",
     "INTERNAL_ERROR", "SERVICE_UNAVAILABLE", "DATABASE_ERROR", "EXTERNAL_SERVICE_ERROR"}

getHTTPStatusForCode(code) ==
    CASE code \in {"UNAUTHORIZED", "INVALID_TOKEN", "EXPIRED_TOKEN"} -> 401
      [] code = "FORBIDDEN" -> 403
      [] code = "NOT_FOUND" -> 404
      [] code \in {"VALIDATION_ERROR", "INVALID_INPUT", "MISSING_FIELD"} -> 400
      [] code \in {"ALREADY_EXISTS", "CONFLICT"} -> 409
      [] code = "SERVICE_UNAVAILABLE" -> 503
      [] code \in {"INTERNAL_ERROR", "DATABASE_ERROR", "EXTERNAL_SERVICE_ERROR"} -> 500
      [] OTHER -> 500

NewAppErrorWithDetails(code, message, details) ==
    [Code |-> code, Message |-> message, Details |-> details,
     HTTPStatus |-> getHTTPStatusForCode(code)]

NewAppError(code, message) == NewAppErrorWithDetails(code, message, "")

\* errors.IsAppError: a type assertion to *AppError
IsAppError(err) == "Code" \in DOMAIN err

\* convertToUserResponse (Roles is always empty; the time stamps are left out)
convertToUserResponse(user) ==
    [ID |-> user.ID, Email |-> user.Email, FirstName |-> user.FirstName,
     LastName |-> user.LastName, Active |-> user.Active]

\* convertToProtoUser
convertToProtoUser(user) ==
    [ID |-> user.ID, Email |-> user.Email, FirstName |-> user.FirstName,
     LastName |-> user.LastName, Active |-> user.Active]

\* what goes over the wire: status line and APIResponse body
NoResponse == [status |-> 0, code |-> "", message |-> << >>, details |-> "",
               user |-> NoUser, token |-> NoToken, refresh_token |-> NoToken]

\* response.Success, response.SuccessWithMessage
Success(data) == [data EXCEPT !.status = 200]

\* response.Created
Created(data) == [data EXCEPT !.status = 201]

\* response.BadRequest
BadRequest(message) ==
    [NoResponse EXCEPT !.status = 400, !.code = "BAD_REQUEST", !.message = message]

\* response.Unauthorized
Unauthorized(message) ==
    [NoResponse EXCEPT !.status = 401, !.code = "UNAUTHORIZED", !.message = message]

\* response.Error
Error(err) ==
    IF IsAppError(err)
    THEN [NoResponse EXCEPT !.status = err.HTTPStatus, !.code = err.Code,
                            !.message = <<err.Message>>, !.details = err.Details]
    ELSE [NoResponse EXCEPT !.status = 500, !.code = "INTERNAL_ERROR",
                            !.message = <<"Internal server error">>]

\* the HTTP handlers login, register, refreshToken, getProfile, validateToken:
\* the response to the call c that returned r
HTTPResponse(c, r) ==
    CASE c.op = "Login" ->
            IF r.err # ErrNil THEN Unauthorized(ErrorString(r))
            ELSE Success([NoResponse EXCEPT !.token = r.access, !.refresh_token = r.refresh,
                                            !.user = convertToUserResponse(r.user)])
      [] c.op = "Register" ->
            IF r.err # ErrNil THEN BadRequest(ErrorString(r))
            ELSE Created([NoResponse EXCEPT !.user = convertToUserResponse(r.user)])
      [] c.op = "RefreshToken" ->
            IF r.err # ErrNil THEN Unauthorized(ErrorString(r))
            ELSE Success([NoResponse EXCEPT !.token = r.access, !.refresh_token = c.token])
      [] c.op \in {"GetProfile", "ValidateToken"} ->
            IF r.err # ErrNil THEN Error(r)
            ELSE Success([NoResponse EXCEPT !.user = convertToUserResponse(r.user)])
      [] OTHER -> NoResponse

\* the gRPC methods Login, Register, ValidateToken, RefreshToken, GetUserProfile
NoReply == [success |-> FALSE, message |-> << >>, user |-> NoUser,
            token |-> NoToken, refresh_token |-> NoToken]

GRPCResponse(c, r) ==
    IF c.op = "" THEN NoReply
    ELSE IF r.err # ErrNil THEN [NoReply EXCEPT !.message = ErrorString(r)]
    ELSE CASE c.op = "Login" ->
                [NoReply EXCEPT !.success = TRUE, !.token = r.access,
                                !.refresh_token = r.refresh,
                                !.user = convertToProtoUser(r.user)]
           [] c.op = "RefreshToken" ->
                [NoReply EXCEPT !.success = TRUE, !.token = r.access,
                                !.refresh_token = c.token]
           [] OTHER ->
                [NoReply EXCEPT !.success = TRUE, !.user = convertToProtoUser(r.user)]

\* ================================================================ error values
\* the code strings an error is created with: the ErrorCode constants and the
\* code response.BadRequest writes into the body
AppErrorCodes == ErrorCodes \cup {"BAD_REQUEST"}

ErrorMessages == {"Invalid request data", "User not found"}

ErrorDetails == {"", "email: required"}

\* errors.NewAppError(code, message)
NewAppErrorCall(code, message) ==
    /\ ret' = [call |-> [op |-> "NewAppError", code |-> code, message |-> message],
               res |-> NewAppError(code, message)]
    /\ UNCHANGED <<cfg, now, users, store, pc, call, registered, issued, ncalls,
                   hashWriting, down, main>>

\* errors.NewAppErrorWithDetails(code, message, details)
NewAppErrorWithDetailsCall(code, message, details) ==
    /\ ret' = [call |-> [op |-> "NewAppErrorWithDetails", code |-> code,
                         message |-> message, details |-> details],
               res |-> NewAppErrorWithDetails(code, message, details)]
    /\ UNCHANGED <<cfg, now, users, store, pc, call, registered, issued, ncalls,
                   hashWriting, down, main>>

\* response.Error(c, err) on the error created last
ErrorCall ==
    /\ ret.call.op \in {"NewAppError", "NewAppErrorWithDetails"}
    /\ ret' = [call |-> [op |-> "Error", err |-> ret.res], res |-> Error(ret.res)]
    /\ UNCHANGED <<cfg, now, users, store, pc, call, registered, issued, ncalls,
                   hashWriting, down, main>>

NextErrors ==
    \/ \E code \in AppErrorCodes, message \in ErrorMessages :
          NewAppErrorCall(code, message)
    \/ \E code \in AppErrorCodes, message \in ErrorMessages, details \in ErrorDetails :
          NewAppErrorWithDetailsCall(code, message, details)
    \/ ErrorCall

\* application errors created with every code and written out as responses
SpecErrors == Init /\ [][NextErrors]_vars

\* ================================================================ token parsing
\* a token as it is presented: the alg its header names, what its signature
\* was made with, and its claims
JWTSecret == "jwt-secret"

ForeignKey == "foreign-key"

\* jwt.SigningMethodHMAC: HS256, HS384, HS512
HMACAlgs == {"HS256", "HS384"}

\* the methods the library has registered (jwt.GetSigningMethod finds them)
RegisteredAlgs == HMACAlgs \cup {"none", "RS256", "ES256", "EdDSA"}

\* header values a caller may send; the last one names no registered method
HeaderAlgs == RegisteredAlgs \cup {"XS256"}

\* the Go type of key each method's Verify asserts
KeyTypeFor(alg) ==
    CASE alg \in HMACAlgs -> "[]byte"
      [] alg = "none" -> "unsafeNoneMagicConstant"
      [] alg = "RS256" -> "*rsa.PublicKey"
      [] alg = "ES256" -> "*ecdsa.PublicKey"
      [] alg = "EdDSA" -> "ed25519.PublicKey"
      [] OTHER -> ""

\* the empty signature segment of an unsigned token
NoSignature == [alg |-> "none", key |-> ""]

\* signature segments: made under alg with key, or empty
Signatures ==
    [alg : RegisteredAlgs \ {"none"}, key : {JWTSecret, ForeignKey}] \cup {NoSignature}

PresentedClaims ==
    {[user_id |-> TestUserID, email |-> TestEmail, exp |-> e, iat |-> 0] : e \in 0..1}

PresentedTokens == [alg : HeaderAlgs, sig : Signatures, claims : PresentedClaims]

\* what a Keyfunc returns with an error
NoKey == [type |-> "", value |-> ""]

\* SigningMethod.Verify: the key must have the type the method asserts, and
\* the signature must be the one the method computes with it
Verify(alg, sig, key) ==
    /\ key.type = KeyTypeFor(alg)
    /\ IF alg = "none" THEN sig = NoSignature
       ELSE sig = [alg |-> alg, key |-> key.value]

\* jwt.ParseWithClaims, key being what the Keyfunc returns for the token: the
\* header's method must be registered, the Keyfunc must return a key, the
\* signature must verify, the claims must be valid at t
ParseWithClaims(tok, key, t) ==
    /\ tok.alg \in RegisteredAlgs
    /\ key # NoKey
    /\ Verify(tok.alg, tok.sig, key)
    /\ parseTokenOk(tok.claims, t)

\* the Keyfunc of AuthService.parseToken: HMAC methods only
parseTokenKeyfunc(alg) ==
    IF alg \in HMACAlgs THEN [type |-> "[]byte", value |-> JWTSecret] ELSE NoKey

\* AuthService.parseToken
parseToken(tok, t) == ParseWithClaims(tok, parseTokenKeyfunc(tok.alg), t)

\* a Keyfunc that hands out a key of the type the header's method asks for
AuthMiddlewareKeyfunc_KeyForAlg(alg) == [type |-> KeyTypeFor(alg), value |-> JWTSecret]

\* the Keyfunc of AuthMiddleware: the secret, whatever the header says
AuthMiddlewareKeyfunc(alg) == [type |-> "[]byte", value |-> JWTSecret]

\* AuthMiddleware: err == nil and parsedToken.Valid
AuthMiddlewareOk(tok, t) == ParseWithClaims(tok, AuthMiddlewareKeyfunc(tok.alg), t)

\* a call of AuthService.parseToken with a presented token
ParseTokenCall(tok) ==
    /\ ret' = [call |-> [op |-> "parseToken", token |-> tok],
               res |-> [valid |-> parseToken(tok, now),
                        claims |-> IF parseToken(tok, now) THEN tok.claims ELSE NoToken,
                        response |-> NoResponse]]
    /\ UNCHANGED <<cfg, now, users, store, pc, call, registered, issued, ncalls,
                   hashWriting, down, main>>

\* a request with the token in its Authorization header passes AuthMiddleware:
\* 401 "Invalid token", or the next handler runs with the claims in its context
AuthMiddlewareCall(tok) ==
    /\ ret' = [call |-> [op |-> "AuthMiddleware", token |-> tok],
               res |-> [valid |-> AuthMiddlewareOk(tok, now),
                        claims |-> IF AuthMiddlewareOk(tok, now) THEN tok.claims
                                   ELSE NoToken,
                        response |-> IF AuthMiddlewareOk(tok, now) THEN NoResponse
                                     ELSE Unauthorized(<<"Invalid token">>)]]
    /\ UNCHANGED <<cfg, now, users, store, pc, call, registered, issued, ncalls,
                   hashWriting, down, main>>

NextParse ==
    \/ \E tok \in PresentedTokens : ParseTokenCall(tok)
    \/ \E tok \in PresentedTokens : AuthMiddlewareCall(tok)
    \/ Tick

\* both parsers fed with every presented token as time passes
SpecParse == Init /\ [][NextParse]_vars

\* ---------------------------------------------------------------- GET /api/v1/auth/validate
\* an Authorization header value: the characters sent before the token, and
\* the token
BearerPrefix == <<"B", "e", "a", "r", "e", "r", " ">>

Prefixes ==
    {<< >>, BearerPrefix,
     <<"b", "e", "a", "r", "e", "r", " ">>,
     <<"B", "E", "A", "R", "E", "R", " ">>,
     <<"T", "o", "k", "e", "n", " ">>}

\* the tokens sent on this route: signed with the service's secret or another
\* key, or unsigned
RouteTokens ==
    {tok \in PresentedTokens :
        /\ tok.alg \in {"HS256", "none"}
        /\ tok.sig \in {[alg |-> "HS256", key |-> JWTSecret],
                        [alg |-> "HS256", key |-> ForeignKey], NoSignature}}

Headers == [prefix : Prefixes, tok : RouteTokens]

\* how the compact form of a token starts: base64url of {"alg":
JWTHead == <<"e", "y", "J", "h", "b", "G", "c">>

\* token[:7] of a header value
HeaderHead(h) == SubSeq(h.prefix \o JWTHead, 1, Len(BearerPrefix))

\* strings.ToLower on the characters that occur
ToLower(s) ==
    [i \in DOMAIN s |->
        CASE s[i] = "B" -> "b" [] s[i] = "E" -> "e" [] s[i] = "A" -> "a"
          [] s[i] = "R" -> "r" [] s[i] = "T" -> "t" [] s[i] = "J" -> "j"
          [] s[i] = "G" -> "g" [] OTHER -> s[i]]

\* AuthMiddleware: strings.ToLower(token[:7]) == "bearer "
AuthMiddlewareStrip(h) ==
    IF ToLower(HeaderHead(h)) = ToLower(BearerPrefix) THEN [h EXCEPT !.prefix = << >>] ELSE h

\* HTTPServer.validateToken: token[:7] == "Bearer "
validateTokenStrip(h) ==
    IF HeaderHead(h) = BearerPrefix THEN [h EXCEPT !.prefix = << >>] ELSE h

\* AuthMiddleware lets the request through: what is left of the header value
\* parses; a value that still has characters and a space before the token
\* is no compact JWT
AuthMiddlewarePasses(h, t) ==
    /\ AuthMiddlewareStrip(h).prefix = << >>
    /\ AuthMiddlewareOk(AuthMiddlewareStrip(h).tok, t)

\* AuthService.ValidateToken on what validateToken hands it
validateTokenResult(h) ==
    IF validateTokenStrip(h).prefix # << >> \/ ~parseToken(validateTokenStrip(h).tok, now)
    THEN Fail(ErrInvalidToken)
    ELSE ValidateTokenResult(validateTokenStrip(h).tok.claims)

\* a GET /api/v1/auth/validate request with the header value h: 401 from
\* AuthMiddleware, or the response of the validateToken handler
ValidateRoute(h) ==
    /\ ret' = [call |-> [op |-> "GET /api/v1/auth/validate", header |-> h],
               res |-> [passed |-> AuthMiddlewarePasses(h, now),
                        response |-> IF AuthMiddlewarePasses(h, now)
                                     THEN HTTPResponse([op |-> "ValidateToken"],
                                                       validateTokenResult(h))
                                     ELSE Unauthorized(<<"Invalid token">>)]]
    /\ UNCHANGED <<cfg, now, users, store, pc, call, registered, issued, ncalls,
                   hashWriting, down, main>>

NextRoute ==
    \/ \E h \in Headers : ValidateRoute(h)
    \/ \E id \in UserIDs : Delete(id)
    \/ Tick

\* the validate route fed with every header value as time passes
SpecRoute == Init /\ [][NextRoute]_vars

\* ================================================================ configuration
\* strings are sequences of characters here, so that they can be parsed
DigitValue ==
    [c \in {"0", "1", "2", "3", "4", "5", "6", "7", "8", "9"} |->
        CASE c = "0" -> 0 [] c = "1" -> 1 [] c = "2" -> 2 [] c = "3" -> 3
          [] c = "4" -> 4 [] c = "5" -> 5 [] c = "6" -> 6 [] c = "7" -> 7
          [] c = "8" -> 8 [] c = "9" -> 9]

IsDigit(c) == c \in DOMAIN DigitValue

\* ---------------------------------------------------------------- uint64 and float64
\* time.ParseDuration counts nanoseconds in a uint64 and scales a fraction in
\* float64.  Neither fits the integers of the checker, so a natural number is
\* kept here as its decimal digits, the most significant first and without
\* leading zeros (0 is the empty sequence), and a float64 above 0 as a
\* mantissa m, 2^52 <= m < 2^53, with an exponent e: the number m * 2^e
Strip(a) ==
    IF \A i \in 1..Len(a) : a[i] = 0 THEN << >>
    ELSE SubSeq(a, CHOOSE i \in 1..Len(a) : a[i] # 0 /\ \A j \in 1..(i - 1) : a[j] = 0,
                Len(a))

Last(a) == a[Len(a)]

\* a < b
Less(a, b) ==
    IF Len(a) # Len(b) THEN Len(a) < Len(b)
    ELSE \E i \in 1..Len(a) : a[i] < b[i] /\ \A j \in 1..(i - 1) : a[j] = b[j]

\* a with zeros in front, n digits long
PadTo(a, n) == [i \in 1..n |-> IF i <= n - Len(a) THEN 0 ELSE a[i - (n - Len(a))]]

\* the length of the longer of a and b
Longer(a, b) == IF Len(a) < Len(b) THEN Len(b) ELSE Len(a)

\* x + y for x and y of n digits: digit i takes a carry when some digit after
\* it makes one and all the digits between pass it on
AddPadded(x, y, n) ==
    Strip([i \in 1..n |->
              (x[i] + y[i]
                 + (IF \E j \in (i + 1)..n : /\ x[j] + y[j] >= 10
                                             /\ \A k \in (i + 1)..(j - 1) : x[k] + y[k] = 9
                    THEN 1 ELSE 0)) % 10])

\* a + b
Add(a, b) ==
    IF a = << >> THEN b
    ELSE IF b = << >> THEN a
    ELSE AddPadded(PadTo(a, Longer(a, b) + 1), PadTo(b, Longer(a, b) + 1), Longer(a, b) + 1)

\* x - y for x >= y of n digits, with the borrows found as the carries of
\* AddPadded are
SubPadded(x, y, n) ==
    Strip([i \in 1..n |->
              (x[i] - y[i] + 10
                 - (IF \E j \in (i + 1)..n : /\ x[j] < y[j]
                                             /\ \A k \in (i + 1)..(j - 1) : x[k] = y[k]
                    THEN 1 ELSE 0)) % 10])

\* a - b for a >= b
Sub(a, b) == IF b = << >> THEN a ELSE SubPadded(a, PadTo(b, Len(a)), Len(a))

\* one pass of carrying over the entries of x: an entry keeps its last digit
\* and takes what the entry after it holds above the last digit
Pass(x) ==
    [k \in 1..Len(x) |-> (x[k] % 10) + (IF k < Len(x) THEN x[k + 1] \div 10 ELSE 0)]

\* the number that entries below 20 make: the last digits plus the carries
Settled(x) ==
    Add(Strip([k \in 1..Len(x) |-> x[k] % 10]),
        Strip([k \in 1..Len(x) |-> IF k < Len(x) THEN x[k + 1] \div 10 ELSE 0]))

\* the sum of the numbers n[k] * 10^(Len(n) - k), every n[k] below 10^4: three
\* passes leave entries below 20
Carried(n) == Settled(Pass(Pass(Pass(<<0, 0, 0, 0>> \o n))))

\* the sum of the products a[i] * b[k - i]: the size of a bag that holds i
\* that many times
Column(a, b, k) ==
    BagCardinality([i \in {j \in 1..Len(a) : k - j \in 1..Len(b) /\ a[j] * b[k - j] > 0}
                       |-> a[i] * b[k - i]])

\* a * b for a and b of at most 100 digits: the products of the digits, summed
\* by the power of ten they stand for
Mul(a, b) ==
    IF a = << >> \/ b = << >> THEN << >>
    ELSE Carried([k \in 1..(Len(a) + Len(b) - 1) |-> Column(a, b, k + 1)])

\* the digits of a number n that the checker's integers hold
Digits(n) == Strip([i \in 1..10 |-> (n \div 10^(10 - i)) % 10])

\* the value of a sequence of digits that the checker's integers hold
ToInt(a) == BagCardinality([i \in {j \in 1..Len(a) : a[j] > 0} |-> a[i] * 10^(Len(a) - i)])

\* 10^k
Pow10(k) == [i \in 1..(k + 1) |-> IF i = 1 THEN 1 ELSE 0]

\* the digit x with b * (n + x * unit) <= r < b * (n + (x + 1) * unit)
QuotientDigit(r, b, n, unit) ==
    CHOOSE x \in 0..9 : /\ ~Less(r, Mul(b, Digits(n + x * unit)))
                        /\ Less(r, Mul(b, Digits(n + (x + 1) * unit)))

\* the digits found, n, with the next one, which counts unit
QuotientWith(r, b, n, unit) == n + unit * QuotientDigit(r, b, n, unit)

\* the c with b * c <= r < b * (c + 1) for r < b * 10^4, less what is below
\* unit: a digit at a time from the one that counts 1000
RECURSIVE Quotient(_, _, _)
Quotient(r, b, unit) ==
    IF unit > 1000 THEN 0 ELSE QuotientWith(r, b, Quotient(r, b, unit * 10), unit)

\* four more digits c of a quotient q, with the remainder r - b * c
DivStep(q, r, b, c) ==
    [q |-> q \o <<c \div 1000, (c \div 100) % 10, (c \div 10) % 10, c % 10>>,
     r |-> Sub(r, Mul(b, Digits(c)))]

\* the step of the long division that takes the digits next of the dividend
DivNext(prev, next, b) ==
    DivStep(prev.q, Strip(prev.r \o next), b, Quotient(Strip(prev.r \o next), b, 1))

\* long division by b > 0, four digits of a at a time: the quotient, which
\* may start with zeros, and the remainder of the number the first 4 * n
\* digits of a make
RECURSIVE DivDigits(_, _, _)
DivDigits(a, b, n) ==
    IF 4 * n < Len(b) THEN [q |-> << >>, r |-> Strip(SubSeq(a, 1, 4 * n))]
    ELSE DivNext(DivDigits(a, b, n - 1), SubSeq(a, 4 * n - 3, 4 * n), b)

\* quotient q and remainder r of a by b > 0: a power of ten splits the digits
\* of a, any other b takes the long division
DivMod(a, b) ==
    IF Len(a) < Len(b) THEN [q |-> << >>, r |-> a]
    ELSE IF b = Pow10(Len(b) - 1)
    THEN [q |-> SubSeq(a, 1, Len(a) - Len(b) + 1),
          r |-> Strip(SubSeq(a, Len(a) - Len(b) + 2, Len(a)))]
    ELSE [r |-> DivDigits(PadTo(a, 4 * ((Len(a) + 3) \div 4)), b, (Len(a) + 3) \div 4).r,
          q |-> Strip(DivDigits(PadTo(a, 4 * ((Len(a) + 3) \div 4)), b,
                                (Len(a) + 3) \div 4).q)]

\* factor i of b^k as a product of powers up to b^n
Factor(b, n, k, i) ==
    Digits(b^(IF k >= n * i THEN n ELSE IF k > n * (i - 1) THEN k - n * (i - 1) ELSE 0))

\* b^k for k up to 6 * n, where the checker's integers hold b^n
PowSmall(b, n, k) ==
    Mul(Mul(Mul(Factor(b, n, k, 1), Factor(b, n, k, 2)),
            Mul(Factor(b, n, k, 3), Factor(b, n, k, 4))),
        Mul(Factor(b, n, k, 5), Factor(b, n, k, 6)))

Pow2(k) == PowSmall(2, 30, k)

Pow5(k) == PowSmall(5, 13, k)

\* the powers of two the two types turn on
TwoTo52 == Pow2(52)

TwoTo53 == Pow2(53)

TwoTo63 == Pow2(63)

TwoTo64 == Pow2(64)

\* uint64 addition: the sum modulo 2^64
Wrap64(x) == IF Less(x, TwoTo64) THEN x ELSE Sub(x, TwoTo64)

Add64(a, b) == Wrap64(Add(a, b))

\* the float64 0
Zero == [m |-> << >>, e |-> 0]

\* p / q / 2^s is Num(p, s) / Den(q, s), with 1 / 2^s written 5^s / 10^s
Num(p, s) == IF s < 0 THEN Mul(p, Pow2(-s)) ELSE Mul(p, Pow5(s))

Den(q, s) == IF s > 0 THEN Mul(q, Pow10(s)) ELSE q

\* the float64 of a mantissa d.q with a remainder d.r by den: the nearest, and
\* of two equally near the one with the even mantissa
Nearest(d, den, e) ==
    IF d.r = << >> THEN [m |-> d.q, e |-> e]
    ELSE IF ~(\/ Less(den, Mul(d.r, <<2>>))
              \/ Mul(d.r, <<2>>) = den /\ Last(d.q) % 2 = 1)
    THEN [m |-> d.q, e |-> e]
    ELSE IF Add(d.q, <<1>>) = TwoTo53 THEN [m |-> TwoTo52, e |-> e + 1]
    ELSE [m |-> Add(d.q, <<1>>), e |-> e]

\* the s of shifts with 2^52 <= p / q / 2^s < 2^53
Shift(p, q, shifts) ==
    CHOOSE s \in shifts : /\ ~Less(Num(p, s), Mul(Den(q, s), TwoTo52))
                          /\ Less(Num(p, s), Mul(Den(q, s), TwoTo53))

\* the float64 nearest to p / q * 2^(e - s) * 2^s
Rounded(p, q, e, s) == Nearest(DivMod(Num(p, s), Den(q, s)), Den(q, s), e + s)

\* the float64 nearest to p / q * 2^e, for q > 0; shifts holds the s with
\* 2^52 <= p / q / 2^s < 2^53
RoundFloat(p, q, e, shifts) ==
    IF p = << >> THEN Zero ELSE Rounded(p, q, e, Shift(p, q, shifts))

\* float64(n) of a whole number n < 2^74
FloatOf(n) == RoundFloat(n, <<1>>, 0, -52..21)

\* x * y and x / y in float64
MulFloat(x, y) ==
    IF x = Zero \/ y = Zero THEN Zero
    ELSE RoundFloat(Mul(x.m, y.m), <<1>>, x.e + y.e, {52, 53})

DivFloat(x, y) == RoundFloat(x.m, y.m, x.e - y.e, {-53, -52})

\* uint64(x) of a float64 x below 2^64: the fraction is dropped
Uint64Of(x) ==
    IF x = Zero THEN << >>
    ELSE IF x.e >= 0 THEN Mul(x.m, Pow2(x.e))
    ELSE IF x.e < -53 THEN << >>
    ELSE DivMod(Mul(x.m, Pow5(-x.e)), Pow10(-x.e)).q

\* ---------------------------------------------------------------- time.ParseDuration
\* time.ParseDuration's unitMap, in nanoseconds; << >> for a unit it lacks.
\* The two micro signs are U+00B5 and U+03BC
unitMap(unit) ==
    CASE unit = <<"n", "s">> -> <<1>>
      [] unit \in {<<"u", "s">>, <<"µ", "s">>, <<"μ", "s">>} -> Digits(1000)
      [] unit = <<"m", "s">> -> Digits(1000000)
      [] unit = <<"s">> -> Digits(1000000000)
      [] unit = <<"m">> -> Mul(Digits(60), Digits(1000000000))
      [] unit = <<"h">> -> Mul(Digits(3600), Digits(1000000000))
      [] OTHER -> << >>

\* how many leading characters of s are digits
DigitsLen(s) ==
    IF \A i \in 1..Len(s) : IsDigit(s[i]) THEN Len(s)
    ELSE (CHOOSE i \in 1..Len(s) : ~IsDigit(s[i]) /\ \A j \in 1..(i - 1) : IsDigit(s[j])) - 1

\* how many leading characters of s belong to a unit: all up to the next
\* digit or period
UnitLen(s) ==
    IF \A i \in 1..Len(s) : ~(IsDigit(s[i]) \/ s[i] = ".") THEN Len(s)
    ELSE (CHOOSE i \in 1..Len(s) : /\ IsDigit(s[i]) \/ s[i] = "."
                                   /\ \A j \in 1..(i - 1) : ~(IsDigit(s[j]) \/ s[j] = ".")) - 1

\* the number the first n characters of s, all digits, spell
Spelled(s, n) == Strip([i \in 1..n |-> DigitValue[s[i]]])

\* time.leadingInt: the leading digits of s as a uint64 x.  It reads
\* x = x*10 + digit and gives up when x is above 2^63/10 before a digit or
\* above 2^63 after it, which is when the digits spell a number above 2^63
leadingInt(s) ==
    [x |-> Spelled(s, DigitsLen(s)),
     rem |-> SubSeq(s, DigitsLen(s) + 1, Len(s)),
     err |-> Less(TwoTo63, Spelled(s, DigitsLen(s)))]

\* the scale of time.leadingFraction after k digits: 1.0 multiplied k times
\* by 10 in float64; the products up to 10^22 are exact
RECURSIVE Scale(_)
Scale(k) ==
    IF k <= 22 THEN FloatOf(Pow10(k)) ELSE MulFloat(Scale(k - 1), FloatOf(Pow10(1)))

\* how many of the first n characters of s, all digits, time.leadingFraction
\* keeps: it reads x = x*10 + digit as leadingInt does, and from the first
\* digit that would take x above 2^63 on it skips the digits
Kept(s, n) ==
    CHOOSE k \in 0..n : /\ ~Less(TwoTo63, Spelled(s, k))
                        /\ k < n => Less(TwoTo63, Spelled(s, k + 1))

\* time.leadingFraction: the leading digits of s as a uint64 x, spelled by
\* the digits kept, with the power of ten, scale, they are to be divided by
leadingFraction(s) ==
    [x |-> Spelled(s, Kept(s, DigitsLen(s))),
     scale |-> Scale(Kept(s, DigitsLen(s))),
     rem |-> SubSeq(s, DigitsLen(s) + 1, Len(s))]

\* a time.Duration: nanoseconds with a sign
NoDuration == [neg |-> FALSE, ns |-> << >>]

ErrDuration == [d |-> NoDuration, err |-> TRUE]

\* the overflow, missing-unit, unknown-unit and invalid-duration returns of
\* the loop of time.ParseDuration
ErrGroup == [d |-> << >>, err |-> TRUE]

\* the loop of time.ParseDuration over the groups [0-9]*(\.[0-9]*)?[a-z]+ of
\* s, with d the nanoseconds counted so far: the sum, or an error for a group
\* without a digit, without a unit, with a unit unitMap lacks, or that passes
\* 2^63 nanoseconds.  The loop body is cut where it names a value: x and the
\* rest of s after leadingInt, f and scale after leadingFraction, the unit,
\* and the nanoseconds v of the group
RECURSIVE ParseDurationFrom(_, _)
\* d += v, and on to the next group
ParseSum(v, rest, d) ==
    IF Less(TwoTo63, v) \/ Less(TwoTo63, Add64(d, v)) THEN ErrGroup
    ELSE ParseDurationFrom(rest, Add64(d, v))

\* v = x * unit + uint64(float64(f) * (float64(unit) / scale))
ParseGroup(x, f, scale, unit, rest, d) ==
    IF Less(DivMod(TwoTo63, unit).q, x) THEN ErrGroup
    ELSE IF f # << >>
    THEN ParseSum(Add(Mul(x, unit),
                      Uint64Of(MulFloat(FloatOf(f), DivFloat(FloatOf(unit), scale)))),
                  rest, d)
    ELSE ParseSum(Mul(x, unit), rest, d)

\* the unit: the characters of frac.rem up to the next digit or period
ParseUnit(x, frac, d) ==
    IF UnitLen(frac.rem) = 0 THEN ErrGroup
    ELSE IF unitMap(SubSeq(frac.rem, 1, UnitLen(frac.rem))) = << >> THEN ErrGroup
    ELSE ParseGroup(x, frac.x, frac.scale, unitMap(SubSeq(frac.rem, 1, UnitLen(frac.rem))),
                    SubSeq(frac.rem, UnitLen(frac.rem) + 1, Len(frac.rem)), d)

\* the fraction: pre tells whether digits came before s
ParseFraction(x, pre, s, d) ==
    IF s # << >> /\ Head(s) = "."
    THEN IF ~pre /\ DigitsLen(Tail(s)) = 0 THEN ErrGroup
         ELSE ParseUnit(x, leadingFraction(Tail(s)), d)
    ELSE IF ~pre THEN ErrGroup
    ELSE ParseUnit(x, [x |-> << >>, scale |-> Zero, rem |-> s], d)

ParseDurationFrom(s, d) ==
    IF s = << >> THEN [d |-> d, err |-> FALSE]
    ELSE IF ~(Head(s) = "." \/ IsDigit(Head(s))) THEN ErrGroup
    ELSE IF leadingInt(s).err THEN ErrGroup
    ELSE ParseFraction(leadingInt(s).x, DigitsLen(s) > 0, leadingInt(s).rem, d)

\* the return of time.ParseDuration after the loop: -d, or d when it fits
ParseSigned(neg, sum) ==
    IF sum.err THEN ErrDuration
    ELSE IF neg THEN [d |-> [neg |-> sum.d # << >>, ns |-> sum.d], err |-> FALSE]
    ELSE IF Less(Sub(TwoTo63, <<1>>), sum.d) THEN ErrDuration
    ELSE [d |-> [neg |-> FALSE, ns |-> sum.d], err |-> FALSE]

\* time.ParseDuration of s without its sign
ParseUnsigned(neg, s) ==
    IF s = <<"0">> THEN [d |-> NoDuration, err |-> FALSE]
    ELSE IF s = << >> THEN ErrDuration
    ELSE ParseSigned(neg, ParseDurationFrom(s, << >>))

\* time.ParseDuration: an optional sign, then "0" or the groups; 0 and an
\* error for a string it does not accept
ParseDuration(s) ==
    ParseUnsigned(s # << >> /\ Head(s) = "-",
                  IF s # << >> /\ Head(s) \in {"-", "+"} THEN Tail(s) ELSE s)

\* the first n digits of t, none for n < 0
Leading(t, n) == SubSeq(t, 1, n)

\* the last n digits of t, all of them when it has fewer
Trailing(t, n) == SubSeq(t, IF Len(t) > n THEN Len(t) - n + 1 ELSE 1, Len(t))

\* the duration of whole ticks and part billionths of a tick, or of as much
\* below zero
DurationOf(neg, whole, part) ==
    IF ~neg THEN [ticks |-> whole, rem |-> part]
    ELSE IF part = 0 THEN [ticks |-> -whole, rem |-> 0]
    ELSE [ticks |-> -whole - 1, rem |-> 1000000000 - part]

\* a time.Duration on the model's clock: its nanoseconds times TicksPerSec
\* are billionths of a tick
DurationTicks(d) ==
    DurationOf(d.neg,
               ToInt(Leading(Mul(d.ns, Digits(TicksPerSec)),
                             Len(Mul(d.ns, Digits(TicksPerSec))) - 9)),
               ToInt(Trailing(Mul(d.ns, Digits(TicksPerSec)), 9)))

\* the environment: the two expiry variables, "" when unset
NoOverrides == [JWT_ACCESS_TOKEN_EXPIRY |-> << >>, JWT_REFRESH_TOKEN_EXPIRY |-> << >>]

Environments ==
    {NoOverrides,
     [JWT_ACCESS_TOKEN_EXPIRY |-> << >>,
      JWT_REFRESH_TOKEN_EXPIRY |-> <<"1", "6", "8", "h">>],
     [JWT_ACCESS_TOKEN_EXPIRY |-> <<"1", "s">>,
      JWT_REFRESH_TOKEN_EXPIRY |-> <<"1", "5", "0", "0", "m", "s">>],
     [JWT_ACCESS_TOKEN_EXPIRY |-> <<"+", "1", "0", "0", "0", "0", "0", "0", "µ", "s">>,
      JWT_REFRESH_TOKEN_EXPIRY |-> <<"1", ".", "5", "s">>],
     [JWT_ACCESS_TOKEN_EXPIRY |-> <<"1", ".", "7", "s">>,
      JWT_REFRESH_TOKEN_EXPIRY |-> <<"1", ".", "7", "s">>],
     [JWT_ACCESS_TOKEN_EXPIRY |-> <<"-", "1", "m", "s">>,
      JWT_REFRESH_TOKEN_EXPIRY |-> <<"1", "m", "s">>],
     [JWT_ACCESS_TOKEN_EXPIRY |-> << >>,
      JWT_REFRESH_TOKEN_EXPIRY |-> <<"-", "1", "n", "s">>]}

\* getEnv: the variable's value, or fallback when it is unset or empty
getEnv(env, key, fallback) == IF env[key] # << >> THEN env[key] ELSE fallback

\* LoadAuthConfig followed by NewAuthService: the parse errors are dropped;
\* redisOn tells whether main got a Redis client
LoadAuthConfig(env, redisOn) ==
    [redisOn |-> redisOn,
     tokenExpiry |->
        DurationTicks(ParseDuration(getEnv(env, "JWT_ACCESS_TOKEN_EXPIRY",
                                           <<"1", "5", "m">>)).d),
     refreshExpiry |->
        DurationTicks(ParseDuration(getEnv(env, "JWT_REFRESH_TOKEN_EXPIRY",
                                           <<"7", "d">>)).d)]

\* the service started by main with the configuration it loaded
InitLoaded ==
    /\ cfg \in {LoadAuthConfig(env, redisOn) : env \in Environments, redisOn \in BOOLEAN}
    /\ now = 0
    /\ users = {TestUser}
    /\ store = << >>
    /\ pc = [p \in Procs |-> "idle"]
    /\ call = [p \in Procs |-> NoCall]
    /\ ret = NoRet
    /\ registered = {}
    /\ issued = {}
    /\ ncalls = 0
    /\ hashWriting = FALSE
    /\ down = AllUp
    /\ main = Serving

\* the database-backed service under the configurations LoadAuthConfig gives
SpecLoaded == InitLoaded /\ [][Next]_vars

\* ---------------------------------------------------------------- a slow Login
\* the service a moment after start: two Logins of the test user began in the
\* same instant; one has stored its refresh token and returned, the other has
\* generated its tokens and has not reached its Redis write yet
LoginInFlight ==
    [NoCall EXCEPT !.op = "Login", !.email = TestEmail, !.password = TestPassword,
                   !.case = "active",
                   !.user = ToServiceUser(TestUser),
                   !.access = generateAccessToken(ToServiceUser(TestUser), 0),
                   !.refresh = generateRefreshToken(ToServiceUser(TestUser), 0)]

InitLoginInFlight ==
    /\ cfg \in {LoadAuthConfig(env, TRUE) : env \in Environments}
    /\ now = 0
    /\ users = {TestUser}
    /\ store = SetWithExpiry(<< >>, RefreshKey(TestUserID), LoginInFlight.refresh,
                             cfg.refreshExpiry, 0)
    /\ pc = [p \in Procs |-> IF p = 1 THEN "Login_store" ELSE "idle"]
    /\ call = [p \in Procs |-> IF p = 1 THEN LoginInFlight ELSE NoCall]
    /\ ret = [call |-> Args(LoginInFlight),
              res |-> [NoRes EXCEPT !.user = LoginInFlight.user,
                                    !.access = LoginInFlight.access,
                                    !.refresh = LoginInFlight.refresh]]
    /\ registered = {}
    /\ issued = {<<"access", LoginInFlight.access>>, <<"refresh", LoginInFlight.refresh>>}
    /\ ncalls = 0
    /\ hashWriting = FALSE
    /\ down = AllUp
    /\ main = Serving

\* the database-backed service from that moment on
SpecLoginInFlight == InitLoginInFlight /\ [][Next]_vars

\* ================================================================ properties
RefreshTokens == {x[2] : x \in {y \in issued : y[1] = "refresh"}}

AccessTokens == {x[2] : x \in {y \in issued : y[1] = "access"}}

\* the call that returned last was an op
Returned(op) == ret.call.op = op

\* n ticks after its start, the duration d has elapsed
Elapsed(n, d) == n > d.ticks \/ (n = d.ticks /\ d.rem = 0)

Inactive == {"inactive", "inactive_wrongpw"}

\* C1: in every reachable state, for every user, at most one of the refresh
\* tokens handed out is accepted by RefreshToken
C1_AtMostOneRefreshTokenAccepted ==
    \A u \in UserIDs :
        Cardinality({t \in RefreshTokens :
                        t.user_id = u /\ RefreshTokenResult(t).err = ErrNil}) <= 1

\* C2: once a Login has succeeded and written the store entry, RefreshToken
\* fails with InvalidToken for every refresh token an earlier, completed Login
\* of the same user returned, however little time passed between the two
C2_FirstLoginTokenRejected ==
    (Returned("Login") /\ ret.res.err = ErrNil /\ cfg.redisOn)
        => \A t \in ret.call.prev : RefreshTokenResult(t) = Fail(ErrInvalidToken)

\* C3: at the moment Login returns success, the store holds the returned
\* refresh token under the returned user's id
C3_LoginReturnsStoredToken ==
    [][\A p \in Procs :
          LoginStore(p) => (GetString(RefreshKey(ret.res.user.ID)) = ret.res.refresh)']_vars

\* C4: a RefreshToken call that found no store entry for the token's subject,
\* or an entry different from the presented token, goes no further: it has
\* failed with InvalidToken and issued nothing
C4_RefreshRequiresStoreMatch ==
    /\ \A p \in Procs :
          call[p].op = "RefreshToken" => call[p].stored = call[p].token
    /\ (Returned("RefreshToken") /\ ret.call.stored # ret.call.token)
          => ret.res = Fail(ErrInvalidToken)

C6_DeactivatedUserRejected ==
    (/\ ret.call.op \in {"Login", "ValidateToken", "RefreshToken", "GetProfile"}
     /\ ret.call.case \in Inactive)
        => /\ ret.res.err # ErrNil
           /\ ret.res.user = NoUser
           /\ ret.res.access = NoToken
           /\ ret.res.refresh = NoToken
           /\ Returned("GetProfile") => ret.res.err = ErrUserNotFound
           /\ (Returned("ValidateToken") /\ parseTokenOk(ret.call.token, now))
                 => ret.res.err = ErrUserNotFound

\* a refresh with an unexpired token equal to the store entry, refused because
\* its user was deactivated before the call started
C6_Witness ==
    /\ Returned("RefreshToken")
    /\ ret.call.case = "inactive"
    /\ cfg.redisOn
    /\ ret.call.stored = ret.call.token
    /\ parseTokenOk(ret.call.token, now)
    /\ ret.res = Fail(ErrUserNotFound)

\* C7: ValidateToken leaves the session store alone and its result is a
\* function of the token, the clock and the user directory: an unexpired token
\* of an active user is accepted whatever the store holds for that user
C7_ValidateIgnoresStore ==
    [][\A p \in Procs, t \in Tokens :
          ValidateToken(p, t) =>
              /\ store' = store
              /\ ret'.res =
                    IF now >= t.exp * TicksPerSec THEN Fail(ErrInvalidToken)
                    ELSE IF \A r \in users : r.id = t.user_id => ~r.active
                    THEN Fail(ErrUserNotFound)
                    ELSE [NoRes EXCEPT !.user =
                             ToServiceUser(CHOOSE r \in users : r.id = t.user_id)]]_vars

\* a token of an earlier Login accepted after a later Login replaced the entry
C7_Witness ==
    /\ Returned("ValidateToken")
    /\ ret.res.err = ErrNil
    /\ cfg.redisOn
    /\ KeyLive(RefreshKey(ret.call.token.user_id))
    /\ store[RefreshKey(ret.call.token.user_id)].val.iat > ret.call.token.iat

\* C8: once Register has succeeded for an email, a Register with that email
\* fails with UserExists at once and leaves the user directory as it was
C8_DuplicateRegisterFails ==
    [][\A p \in Procs, e \in Emails, in \in RegisterInputs :
          (Register(p, e, in[1], <<in[2], in[3]>>) /\ \E x \in registered : x[1] = e)
              => /\ pc'[p] = "idle"
                 /\ ret'.res = Fail(ErrUserExists)
                 /\ users' = users]_vars

C8_Witness ==
    /\ Returned("Register")
    /\ ret.res = Fail(ErrUserExists)
    /\ \E x \in registered : x[1] = ret.call.email

\* C9: whatever the interleaving of Register calls with one email, at most one
\* of them returns success and the directory never holds two users with it
C9_OneRegisterPerEmail ==
    /\ \A x, y \in registered : x[1] = y[1] => x = y
    /\ \A r1, r2 \in users : r1.email = r2.email => r1 = r2

\* a Register that passed the existence check and lost the race at the insert
C9_Witness ==
    /\ Returned("Register")
    /\ ret.call.case = "absent"
    /\ ret.res.err = ErrInternal
    /\ \E x \in registered : x[1] = ret.call.email

\* C10: in the in-memory variant, concurrent Register calls behave as some
\* sequential order of them: for one email one call succeeds, and every user
\* a call returned is the one the map holds
C10_MemRegisterSequential ==
    /\ \A x, y \in registered : x[1] = y[1] => x = y
    /\ \A x \in registered : \E r \in users : r.email = x[1] /\ r.id = x[2]

\* C11: the access token a successful RefreshToken returns carries the
\* token's user and passes ValidateToken's parse at every instant before the
\* access TTL has elapsed since the refresh (ValidateToken accepts a token of
\* an active user exactly when it parses)
C11_RefreshedTokenValidates ==
    [][\A p \in Procs :
          (RefreshTokenGetProfile(p) /\ ret'.res.err = ErrNil)
              => /\ ret'.res.access.user_id = call[p].token.user_id
                 /\ \A t \in now..(now + cfg.tokenExpiry.ticks + 1) :
                       ~Elapsed(t - now, cfg.tokenExpiry)
                           => parseTokenOk(ret'.res.access, t)]_vars

\* C12: a token issued at instant now with a ttl > 0 parses to the user's id
\* and email at every instant before now + ttl and fails to parse at every
\* instant after now + ttl
C12_TokenParsesWithinTTL ==
    [][\A p \in Procs, e \in Emails, pw \in Passwords :
          (Login(p, e, pw) /\ pc'[p] = "Login_store" /\ Positive(cfg.tokenExpiry))
              => \A t \in now..(now + cfg.tokenExpiry.ticks + 1) :
                    /\ ~Elapsed(t - now, cfg.tokenExpiry)
                          => /\ parseTokenOk(call'[p].access, t)
                             /\ call'[p].access.user_id = call'[p].user.ID
                             /\ call'[p].access.email = e
                    /\ t - now > cfg.tokenExpiry.ticks
                          => ~parseTokenOk(call'[p].access, t)]_vars

\* the users with the password they were registered with; the test user is
\* inserted by the migration
RegisteredWith == registered \cup {<<TestEmail, TestUserID, TestPassword>>}

\* C13: for an active user registered with password p, Login with p goes on
\* to issue tokens and Login with any other password fails with
\* InvalidCredentials
C13_PasswordAcceptedIffRegistered ==
    [][\A p \in Procs, e \in Emails, pw \in Passwords :
          \A x \in RegisteredWith :
              (/\ Login(p, e, pw)
               /\ x[1] = e
               /\ \E r \in users : r.id = x[2] /\ r.active)
                  => /\ pw = x[3] => pc'[p] = "Login_store"
                     /\ pw # x[3] => /\ pc'[p] = "idle"
                                     /\ ret'.res = Fail(ErrInvalidCredentials)]_vars

\* the fields of a user as callers see it, and of a token's claims
UserViewFields == {"ID", "Email", "FirstName", "LastName", "Active"}

ClaimFields == {"user_id", "email", "exp", "iat"}

\* C14: what the five operations return, the HTTP and gRPC responses built
\* from it and the tokens handed out carry the user without a password or
\* password hash field, and an error text names no password
C14_NoPasswordReturned ==
    /\ DOMAIN ret.res.user = UserViewFields
    /\ DOMAIN HTTPResponse(ret.call, ret.res).user = UserViewFields
    /\ DOMAIN GRPCResponse(ret.call, ret.res).user = UserViewFields
    /\ \A t \in Tokens \cup {ret.res.access, ret.res.refresh} : DOMAIN t = ClaimFields
    /\ \A i \in DOMAIN ret.res.detail \cup (IF ret.res.err = ErrNil THEN {} ELSE {1}) :
          ErrorString(ret.res)[i] \in
              {ErrInvalidCredentials, ErrUserExists, ErrUserNotFound, ErrInvalidToken,
               "failed to hash password", ErrPasswordTooLong,
               "failed to create user", UniqueViolation}
    /\ ret.res.err = ErrNil
          => \A x \in RegisteredWith :
                x[2] = ret.res.user.ID
                    => /\ ret.res.user.Email = x[1]
                       /\ HTTPResponse(ret.call, ret.res).user = ret.res.user
                       /\ GRPCResponse(ret.call, ret.res).user = ret.res.user

\* a Login answered with the user and both tokens while the user's row holds
\* the password hash
C14_Witness ==
    /\ Returned("Login")
    /\ ret.res.err = ErrNil
    /\ HTTPResponse(ret.call, ret.res).status = 200
    /\ HTTPResponse(ret.call, ret.res).user.ID = ret.res.user.ID
    /\ \E r \in users : r.id = ret.res.user.ID /\ r.password = GenerateFromPassword(PwA)

\* C16: the HTTP front-end answers a business-rule failure with the status of
\* its class, never as an internal error: UserExists from Register with 409,
\* UserNotFound from ValidateToken or GetProfile with 404 NOT_FOUND,
\* InvalidCredentials and InvalidToken with 401
C16_BusinessErrorsKeepTheirStatus ==
    LET resp == HTTPResponse(ret.call, ret.res)
    IN /\ (Returned("Register") /\ ret.res.err = ErrUserExists) => resp.status = 409
       /\ (ret.call.op \in {"ValidateToken", "GetProfile"} /\ ret.res.err = ErrUserNotFound)
             => (resp.status = 404 /\ resp.code = "NOT_FOUND")
       /\ ret.res.err \in {ErrInvalidCredentials, ErrInvalidToken} => resp.status = 401
       /\ ret.res.err \in {ErrUserExists, ErrUserNotFound, ErrInvalidCredentials,
                           ErrInvalidToken}
             => (resp.status # 500 /\ resp.code # "INTERNAL_ERROR")

\* C15: an application error created with one of the listed codes carries the
\* HTTP status the table gives: 401 for UNAUTHORIZED, INVALID_TOKEN and
\* EXPIRED_TOKEN, 403 for FORBIDDEN, 404 for NOT_FOUND, 400 for
\* VALIDATION_ERROR and BAD_REQUEST, 409 for ALREADY_EXISTS and CONFLICT, 500
\* for INTERNAL_ERROR and DATABASE_ERROR
C15_CodeStatusTable ==
    ret.call.op \in {"NewAppError", "NewAppErrorWithDetails"} =>
        LET code == ret.call.code
            status == ret.res.HTTPStatus
        IN  /\ code \in {"UNAUTHORIZED", "INVALID_TOKEN", "EXPIRED_TOKEN"} => status = 401
            /\ code = "FORBIDDEN" => status = 403
            /\ code = "NOT_FOUND" => status = 404
            /\ code \in {"VALIDATION_ERROR", "BAD_REQUEST"} => status = 400
            /\ code \in {"ALREADY_EXISTS", "CONFLICT"} => status = 409
            /\ code \in {"INTERNAL_ERROR", "DATABASE_ERROR"} => status = 500

\* the result r of a run in which the directory or store failed with text
\* instead of the text it failed with in this one
WithUnderlyingError(r, text) ==
    [r EXCEPT !.detail = [i \in DOMAIN r.detail |->
                            IF i = Len(r.detail) THEN text ELSE r.detail[i]]]

\* the call that returned last failed because a directory or store call
\* returned an error
InternalFailure ==
    /\ ret.res.err = ErrInternal
    /\ ret.res.detail # << >>
    /\ ret.res.detail[Len(ret.res.detail)] \in DriverErrors

\* C17: when an operation failed because a directory or store call returned
\* an error, the response of either transport is the same whatever the text of
\* that error: a run that differs only in the text gets the identical response
C17_InternalFailureResponseGeneric ==
    InternalFailure =>
        \A text \in DriverErrors :
            /\ HTTPResponse(ret.call, WithUnderlyingError(ret.res, text))
                  = HTTPResponse(ret.call, ret.res)
            /\ GRPCResponse(ret.call, WithUnderlyingError(ret.res, text))
                  = GRPCResponse(ret.call, ret.res)

\* C18: a Login, GetProfile, ValidateToken or RefreshToken whose directory or
\* store call is made while that service is out of reach returns an Internal
\* failure, not InvalidCredentials, InvalidToken or UserNotFound
C18_OutageReportedAsInternal ==
    [][\A p \in Procs :
          /\ ((\E e \in Emails, pw \in Passwords : Login(p, e, pw)) /\ down.db # "")
                => ret'.res.err = ErrInternal
          /\ ((\E id \in UserIDs : GetProfile(p, id)) /\ down.db # "")
                => ret'.res.err = ErrInternal
          /\ ((\E t \in Tokens : ValidateToken(p, t) /\ parseTokenOk(t, now))
                 /\ down.db # "")
                => ret'.res.err = ErrInternal
          /\ ((\E t \in Tokens : RefreshToken(p, t) /\ parseTokenOk(t, now))
                 /\ cfg.redisOn /\ down.redis # "")
                => ret'.res.err = ErrInternal
          /\ (RefreshTokenGetProfile(p) /\ down.db # "")
                => ret'.res.err = ErrInternal]_vars

\* C19: a token whose header names an algorithm outside the HMAC family is
\* rejected by AuthService.parseToken and by AuthMiddleware alike, whatever its
\* signature and claims: it is never treated as valid, and the middleware
\* answers it with 401
C19_NonHMACAlgRejected ==
    (ret.call.op \in {"parseToken", "AuthMiddleware"} /\ ret.call.token.alg \notin HMACAlgs)
        => /\ ~ret.res.valid
           /\ ret.res.claims = NoToken
           /\ ret.call.op = "AuthMiddleware" => ret.res.response.status = 401

\* the middleware was given an unsigned token (alg none, empty signature)
\* with claims that have not expired, and rejected it
C19_Witness ==
    /\ ret.call.op = "AuthMiddleware"
    /\ ret.call.token.alg = "none"
    /\ ret.call.token.sig = NoSignature
    /\ parseTokenOk(ret.call.token.claims, now)
    /\ ~ret.res.valid

\* C20: the Redis and database connections are closed only after the servers
\* have finished the requests in flight: while a request is in flight, neither
\* connection has been closed
C20_NoRequestSeesClosedConnection ==
    (\E p \in Procs : pc[p] # "idle")
        => (down.redis # ErrRedisClosed /\ down.db # ErrDBClosed)

\* C21: started with no environment overrides, the service gives access tokens
\* 15 minutes and refresh tokens 7 days, and the refresh token a Login returned
\* is accepted by RefreshToken while the user is active and no later call has
\* returned (all of the model's clock lies within one day of the Login)
C21_DefaultLifetimes ==
    cfg \in {LoadAuthConfig(NoOverrides, redisOn) : redisOn \in BOOLEAN} =>
        /\ cfg.tokenExpiry = Ticks(15 * 60 * TicksPerSec)
        /\ cfg.refreshExpiry = Ticks(7 * 24 * 3600 * TicksPerSec)
        /\ (Returned("Login") /\ ret.res.err = ErrNil
               /\ GetByID(ret.res.user.ID) # NoRow)
              => RefreshTokenResult(ret.res.refresh).err = ErrNil

\* C22: a Register that reaches its insert after a concurrent Register has
\* created a user with the same email fails with UserExists
C22_ConcurrentRegisterFailsUserExists ==
    [][\A p \in Procs :
          (RegisterCreate(p) /\ EmailExists(call[p].email))
              => ret'.res = Fail(ErrUserExists)]_vars

\* C23: a Register that succeeds adds exactly one row, active and with the
\* call's email, to the users table, returns no token, issues none and leaves
\* the store as it was; a Register that fails changes neither the users table
\* nor the store; the existence check itself changes nothing
C23_RegisterFrame ==
    [][\A p \in Procs :
          /\ (\E e \in Emails, in \in RegisterInputs :
                 Register(p, e, in[1], <<in[2], in[3]>>))
                => /\ users' = users /\ store' = store /\ issued' = issued
                   /\ pc'[p] = "idle" => ret'.res.err # ErrNil
          /\ RegisterCreate(p)
                => /\ store' = store /\ issued' = issued
                   /\ ret'.res.access = NoToken /\ ret'.res.refresh = NoToken
                   /\ IF ret'.res.err = ErrNil
                      THEN \E row \in users' \ users :
                              /\ users' = users \cup {row}
                              /\ row.active
                              /\ row.email = call[p].email
                              /\ row.id = ret'.res.user.ID
                      ELSE users' = users]_vars

\* a Register has returned the user it created, and the row is in the table
C23_Witness ==
    /\ Returned("Register")
    /\ ret.res.err = ErrNil
    /\ \E row \in users : row.id = ret.res.user.ID /\ row.active /\ row.email = ret.call.email
    /\ store = << >>

\* C24: every entry of the store lies under the key of the user its token
\* names, holds a refresh token that was handed out, and expires at the
\* instant the token's own exp claim gives
C24_StoreEntryMatchesToken ==
    \A k \in DOMAIN store :
        /\ k = RefreshKey(store[k].val.user_id)
        /\ store[k].val \in RefreshTokens
        /\ store[k].expireAt = store[k].val.exp * TicksPerSec

\* C25: no step of a RefreshToken call, successful or failing, changes a
\* value or an expiry of the store; when the call succeeds both adapters hand
\* the presented refresh token back, and the token is accepted again as long
\* as it has not expired and the store still matches it
C25_RefreshTokenFrame ==
    [][\A p \in Procs :
          /\ (\E t \in Tokens : RefreshToken(p, t)) => store' = store
          /\ RefreshTokenGetProfile(p)
                => /\ store' = store
                   /\ ret'.res.err = ErrNil
                         => /\ HTTPResponse(ret'.call, ret'.res).refresh_token
                                  = call[p].token
                            /\ GRPCResponse(ret'.call, ret'.res).refresh_token
                                  = call[p].token
                            /\ (parseTokenOk(call[p].token, now)
                                   /\ StoreCheckOk(call[p].token))
                                  => (RefreshTokenResult(ret.call.token).err = ErrNil)']_vars

\* a RefreshToken has succeeded with the token the store holds, and the store
\* still holds that token
C25_Witness ==
    /\ Returned("RefreshToken")
    /\ ret.res.err = ErrNil
    /\ cfg.redisOn
    /\ GetString(RefreshKey(ret.call.token.user_id)) = ret.call.token
    /\ HTTPResponse(ret.call, ret.res).refresh_token = ret.call.token

\* C26: when the in-memory RefreshToken, running with a store, returns a new
\* refresh token for the presented one, the store holds the new token under
\* the user's key, the new token passes RefreshToken's checks, and the
\* presented token no longer does: it is answered with InvalidToken
C26_RotationRetiresOldToken ==
    [][\A p \in Procs :
          (MemRefreshTokenStore(p) /\ cfg.redisOn)
              => /\ (GetString(RefreshKey(ret.call.token.user_id)) = ret.res.refresh)'
                 /\ (MemRefreshTokenCheck(ret.res.refresh) = ErrNil)'
                 /\ (MemRefreshTokenCheck(ret.call.token) = ErrInvalidToken)']_vars

\* C27: ValidateToken accepts a token of an active user exactly as long as
\* parseToken does.  Neither token a Login hands out, nor the access token a
\* RefreshToken hands out, is still accepted once the access TTL has passed
\* since it was handed out
C27_AcceptedNoLongerThanAccessTTL ==
    [][\A p \in Procs :
          \A t \in now..(now + cfg.tokenExpiry.ticks + cfg.refreshExpiry.ticks + 2) :
              Elapsed(t - now, cfg.tokenExpiry) =>
                  /\ LoginStore(p) => /\ ~parseTokenOk(call[p].access, t)
                                      /\ ~parseTokenOk(call[p].refresh, t)
                  /\ RefreshTokenGetProfile(p) => ~parseTokenOk(ret'.res.access, t)]_vars

\* C28: in every reachable state RefreshToken rejects every token that was
\* handed out as an access token
C28_AccessTokenNotRefreshable ==
    \A t \in AccessTokens : RefreshTokenResult(t).err # ErrNil

\* C29: when the call that returned last is a RefreshToken that rejected its
\* token with InvalidToken (the token had expired, or the store did not hold
\* it any more), then whatever step comes next, RefreshToken still does not
\* accept that token
C29_RejectedTokenStaysRejected ==
    [][(Returned("RefreshToken") /\ ret.res = Fail(ErrInvalidToken))
          => \A t \in {ret.call.token} : (RefreshTokenResult(t).err # ErrNil)']_vars

\* C30: RefreshToken answers a token that parses, but that the store does not
\* hold under the key of the token's subject, with InvalidToken, whether or
\* not the token's user exists; it answers UserNotFound only when the token
\* parsed and the store held it.  Checked on both steps in which the
\* in-memory RefreshToken may refuse a token: the one that parses it and
\* looks the user up, and the one that reads the store
C30_StoreCheckBeforeUserLookup ==
    [][/\ \A p \in Procs, t \in Tokens :
             (MemRefreshToken(p, t) /\ pc'[p] = "idle" /\ cfg.redisOn)
                 => /\ (parseTokenOk(t, now) /\ GetString(RefreshKey(t.user_id)) # t)
                          => ret'.res = Fail(ErrInvalidToken)
                    /\ ret'.res = Fail(ErrUserNotFound)
                          => (parseTokenOk(t, now) /\ GetString(RefreshKey(t.user_id)) = t)
       /\ \A p \in Procs :
             (MemRefreshTokenGet(p) /\ cfg.redisOn)
                 => /\ GetString(RefreshKey(call[p].token.user_id)) # call[p].token
                          => ret'.res = Fail(ErrInvalidToken)
                    /\ pc'[p] = "idle" => ret'.res # Fail(ErrUserNotFound)]_vars

\* C31: no step of an operation of AuthService or of UserRepository removes
\* an entry from the store, and Delete leaves the store as it was, so the
\* entry of a deactivated user stays; in such a step an entry changes only
\* when a Login of the same user overwrites it, and it stops being readable
\* only when the clock reaches its expiry.  The steps left aside are those of
\* the Redis client's own Delete, SetNX, Increment and IncrementWithExpiry,
\* which none of these operations calls
C31_NoOperationDeletesEntry ==
    [][\/ ClientStep
       \/ /\ \A k \in DOMAIN store :
                /\ k \in DOMAIN store'
                /\ store'[k] # store[k]
                      => \E p \in Procs : LoginStore(p) /\ k = RefreshKey(call[p].user.ID)
                /\ (KeyLive(k) /\ ~KeyLive(k)')
                      => (now < store[k].expireAt /\ now' >= store[k].expireAt)
          /\ \A id \in UserIDs :
                Delete(id) => /\ store' = store
                              /\ (GetString(RefreshKey(id)))' = GetString(RefreshKey(id))]_vars

\* a deactivated user whose refresh-token entry is still readable
C31_Witness ==
    \E r \in users : ~r.active /\ KeyLive(RefreshKey(r.id)) /\ GetString(RefreshKey(r.id)) # NoToken


\* C32: no step takes a user's id and email out of the directory, Delete
\* changes nothing of a row but its active flag, and for the email of a
\* deactivated user Register fails at once with UserExists and Login fails at
\* once with InvalidCredentials
C32_UsersNeverRemoved ==
    [][/\ \A r \in users : \E r2 \in users' : r2.id = r.id /\ r2.email = r.email
       /\ \A id \in UserIDs :
            Delete(id) => users' = {IF r.id = id THEN [r EXCEPT !.active = FALSE] ELSE r
                                        : r \in users}
       /\ \A e \in {x \in Emails : CaseOfEmail(x) = "inactive"}, p \in Procs :
            /\ \A in \in RegisterInputs :
                  Register(p, e, in[1], <<in[2], in[3]>>)
                      => /\ pc'[p] = "idle"
                         /\ ret'.res = Fail(ErrUserExists)
            /\ \A pw \in Passwords :
                  Login(p, e, pw)
                      => /\ pc'[p] = "idle"
                         /\ ret'.res = Fail(ErrInvalidCredentials)]_vars

\* a Register with the email of a deactivated user has just been refused
C32_Witness ==
    /\ Returned("Register")
    /\ ret.call.case = "inactive"
    /\ ret.res = Fail(ErrUserExists)
    /\ \E r \in users : r.email = ret.call.email /\ ~r.active


\* C33: when a Login returns success and the call that returned last was a
\* successful Login of the same user that returned after this one had started,
\* the store then holds the refresh token of one of the two calls, RefreshToken
\* accepts the held token while the user is active, and rejects the other
\* token when the two differ
C33_ConcurrentLoginsLeaveOneToken ==
    [][\A p \in Procs :
          (/\ LoginStore(p)
           /\ Returned("Login")
           /\ ret.res.err = ErrNil
           /\ ret.res.user.ID = call[p].user.ID
           /\ ret.res.refresh \notin call[p].prev)
              => /\ (GetString(RefreshKey(ret.res.user.ID)))' \in {ret.res.refresh, ret'.res.refresh}
                 /\ (GetByID(ret.res.user.ID) # NoRow)'
                       => (RefreshTokenResult(GetString(RefreshKey(ret.res.user.ID))).err = ErrNil)'
                 /\ ret.res.refresh # ret'.res.refresh
                       => \E t \in {ret.res.refresh, ret'.res.refresh} :
                             (RefreshTokenResult(t).err # ErrNil)']_vars


\* C34: a GET /api/v1/auth/validate request that AuthMiddleware lets through
\* and whose token names an active user is answered with 200 by the
\* validateToken handler
C34_MiddlewareAndHandlerAgree ==
    (/\ ret.call.op = "GET /api/v1/auth/validate"
     /\ ret.res.passed
     /\ GetByID(ret.call.header.tok.claims.user_id) # NoRow)
        => ret.res.response.status = 200


\* C35: once the signal has been received, the process ends: ListenAndServe
\* and Serve have returned, wg.Wait has returned and main is at its end
C35_ShutdownCompletes ==
    (main.pc # "serving")
        ~> (main.pc = "exited" /\ main.http # "serving" /\ main.grpc = "stopped")

\* the process has ended, and the Login that returned last, with the password
\* of an active user, had found the database handle closed
C35_Witness ==
    /\ main.pc = "exited"
    /\ main.grpc = "stopped"
    /\ down.db = ErrDBClosed
    /\ Returned("Login")
    /\ ret.call.case = "active"
    /\ ret.res = Fail(ErrInvalidCredentials)

============================================================================
